---- MODULE Spec2Model ----
(***************************************************************************)
(* Model of the gurilla7 tenant store (database/db_manager.py) and of the  *)
(* industry crawler that fills it (src/scraping/industry/crawler.py).      *)
(*                                                                         *)
(* One SQLite file per client id; every DatabaseManager method opens its   *)
(* own connection, runs its statement(s) and commits, so each method is    *)
(* one action on the file it addresses.                                    *)
(*                                                                         *)
(* Conventions.                                                            *)
(*   - an SQL/Python nullable value is a sequence of length 0 (NULL/None)  *)
(*     or 1 (the value);                                                   *)
(*   - a text that is searched with LIKE is a sequence of one-character    *)
(*     strings; other texts are opaque strings;                            *)
(*   - a JSON text is a sequence of tokens [k, v];                         *)
(*   - CURRENT_TIMESTAMP is the variable clock, in whole seconds;          *)
(*   - last describes the method call the latest step made: its name, the  *)
(*     client id of the manager, its arguments and what it returned;       *)
(*   - added is a history variable: for each file, the tags argument of    *)
(*     every add_industry_data call so far, in call order;                 *)
(*   - callers holds the calls of the concurrent callers of one tenant,    *)
(*     each running statement by statement on a connection of its own;     *)
(*   - chat holds, per Telegram user, the conversation of the onboarding   *)
(*     bot (src/onboarding/bot.py).                                        *)
(***************************************************************************)
EXTENDS Integers, Sequences, FiniteSets, TLC

VARIABLES files, clock, last, crawl, added, callers, chat

vars == <<files, clock, last, crawl, added, callers, chat>>

(***************************************************************************)
(* Bounds of the model.                                                    *)
(***************************************************************************)
MaxClock == 1
MaxClients == 2
MaxEntries == 2
MaxLeads == 2
MaxSolutions == 2
MaxOutreach == 2
MaxIsoRows == 1
MaxUrls == 3
\* the limit=1000 that export_campaign_data passes to the queries it calls,
\* scaled to the sizes of the model's tables
ExportLimit == 1

(***************************************************************************)
(* Nullable values.                                                        *)
(***************************************************************************)
NULL == <<>>
Some(x) == <<x>>
IsNull(o) == o = <<>>
Val(o) == o[1]

Range(s) == {s[i] : i \in 1..Len(s)}

(***************************************************************************)
(* json.dumps / json.loads on the values the store serialises.             *)
(***************************************************************************)
Tok(k, v) == [k |-> k, v |-> v]

RECURSIVE json_items(_)
json_items(items) ==
    IF items = <<>> THEN <<>>
    ELSE IF Len(items) = 1 THEN <<Tok("str", items[1])>>
    ELSE <<Tok("str", items[1]), Tok(",", "")>> \o json_items(Tail(items))

\* json.dumps of a Python list of strings
json_dumps(list) == <<Tok("[", "")>> \o json_items(list) \o <<Tok("]", "")>>

RECURSIVE json_pairs(_)
json_pairs(pairs) ==
    IF pairs = <<>> THEN <<>>
    ELSE LET p == <<Tok("str", pairs[1].k), Tok(":", ""), Tok("num", pairs[1].v)>>
         IN IF Len(pairs) = 1 THEN p
            ELSE p \o <<Tok(",", "")>> \o json_pairs(Tail(pairs))

\* json.dumps of a Python dict, given as its items [k, v] in insertion order
json_dumps_dict(pairs) == <<Tok("{", "")>> \o json_pairs(pairs) \o <<Tok("}", "")>>

JSONDecodeError == [ok |-> FALSE, kind |-> "error", val |-> <<>>]

\* the elements between the brackets: str (, str)*
RECURSIVE json_parse_items(_)
json_parse_items(toks) ==
    IF toks = <<>> THEN [ok |-> TRUE, val |-> <<>>]
    ELSE IF toks[1].k # "str" THEN [ok |-> FALSE, val |-> <<>>]
    ELSE IF Len(toks) = 1 THEN [ok |-> TRUE, val |-> <<toks[1].v>>]
    ELSE IF toks[2].k # "," \/ Len(toks) = 2 THEN [ok |-> FALSE, val |-> <<>>]
    ELSE LET rest == json_parse_items(SubSeq(toks, 3, Len(toks)))
         IN [ok |-> rest.ok, val |-> <<toks[1].v>> \o rest.val]

\* the members between the braces: str : num (, str : num)*
RECURSIVE json_parse_pairs(_)
json_parse_pairs(toks) ==
    IF toks = <<>> THEN [ok |-> TRUE, val |-> <<>>]
    ELSE IF Len(toks) < 3 \/ toks[1].k # "str" \/ toks[2].k # ":" \/ toks[3].k # "num"
        THEN [ok |-> FALSE, val |-> <<>>]
    ELSE IF Len(toks) = 3 THEN [ok |-> TRUE, val |-> <<[k |-> toks[1].v, v |-> toks[3].v]>>]
    ELSE IF toks[4].k # "," \/ Len(toks) = 4 THEN [ok |-> FALSE, val |-> <<>>]
    ELSE LET rest == json_parse_pairs(SubSeq(toks, 5, Len(toks)))
         IN [ok |-> rest.ok, val |-> <<[k |-> toks[1].v, v |-> toks[3].v]>> \o rest.val]

\* json.loads: a list of strings, a dict (its items), a scalar (kept as the
\* sequence of its one token), or JSONDecodeError
json_loads(text) ==
    IF text = <<>> THEN JSONDecodeError
    ELSE IF text[1].k = "[" THEN
        IF Len(text) < 2 \/ text[Len(text)].k # "]" THEN JSONDecodeError
        ELSE LET r == json_parse_items(SubSeq(text, 2, Len(text) - 1))
             IN IF r.ok THEN [ok |-> TRUE, kind |-> "list", val |-> r.val]
                ELSE JSONDecodeError
    ELSE IF Len(text) = 1 /\ text[1].k \in {"str", "num"}
        THEN [ok |-> TRUE, kind |-> "scalar", val |-> text]
    ELSE IF text[1].k = "{" THEN
        IF Len(text) < 2 \/ text[Len(text)].k # "}" THEN JSONDecodeError
        ELSE LET r == json_parse_pairs(SubSeq(text, 2, Len(text) - 1))
             IN IF r.ok THEN [ok |-> TRUE, kind |-> "dict", val |-> r.val]
                ELSE JSONDecodeError
    ELSE JSONDecodeError

(***************************************************************************)
(* The files: one database per client id.                                  *)
(***************************************************************************)
ClientIds == {"alice", "6115501596"}

db_dir == "client_dbs"

\* a faulty variant: one file whatever the client id
_get_db_path_shared(client_id) == <<db_dir, "client", ".db">>

\* os.path.join(db_dir, f"{client_id}.db")
_get_db_path(client_id) == <<db_dir, client_id, ".db">>

Paths == {_get_db_path(c) : c \in ClientIds} \cup {_get_db_path_shared(c) : c \in ClientIds}

NoFile == [exists |-> FALSE]

\* the five tables CREATE TABLE IF NOT EXISTS makes, empty
EmptyDb ==
    [exists |-> TRUE,
     clients |-> <<>>,
     industry_data |-> <<>>,
     lead_bucket |-> <<>>,
     tailored_solutions |-> <<>>,
     outreach_log |-> <<>>]

\* __init__: the file of the client id, created with its schema when absent
_init_database(fs, client_id) ==
    LET p == _get_db_path(client_id)
    IN IF fs[p].exists THEN fs ELSE [fs EXCEPT ![p] = EmptyDb]

Db(client_id) == files[_get_db_path(client_id)]

Opened(client_id) == Db(client_id).exists

Call(op, client_id, args, ret) ==
    [op |-> op, client_id |-> client_id, args |-> args, ret |-> ret]

\* the crawler's coroutine: no batch running
IdleCrawl == [pc |-> "idle", client_id |-> "", urls |-> <<>>, tags |-> NULL, env |-> <<>>,
              i |-> 0, page |-> NULL, title |-> NULL, content |-> <<>>,
              results |-> <<>>, base |-> 0]

\* the concurrent callers of one tenant
Callers == {1, 2}

\* a caller that has no call running
IdleCall == [pc |-> "idle", op |-> "", args |-> <<>>, got |-> <<>>, during |-> {}, ret |-> <<>>]

\* the Telegram users, by user id; the first one has set a username
UserIds == {"7001", "6115501596"}

username(u) == IF u = "7001" THEN Some("alice") ELSE NULL

\* ConversationHandler.END, and the conversation states
END == "END"
EMAIL == "EMAIL"
INDUSTRY == "INDUSTRY"
LOCATION == "LOCATION"
CAMPAIGN_PARAMS == "CAMPAIGN_PARAMS"

\* a user with no conversation: context.user_data is empty ("" for a key
\* that is not set), nothing was replied, no update has come, no dialogue has
\* run; creates counts the create_client calls of the current dialogue
NoChat ==
    [state |-> END,
     user_data |-> [client_id |-> "", display_name |-> "", email |-> "", industry |-> "",
                    location |-> ""],
     reply |-> "", update |-> [kind |-> "", text |-> ""], dialogues |-> 0, creates |-> 0]

Init ==
    /\ files = [p \in Paths |-> NoFile]
    /\ clock = 0
    /\ last = Call("none", "", <<>>, <<>>)
    /\ crawl = IdleCrawl
    /\ added = [p \in Paths |-> <<>>]
    /\ callers = [p \in Callers |-> IdleCall]
    /\ chat = [u \in UserIds |-> NoChat]

\* DatabaseManager(client_id)
Open(c) ==
    /\ files' = _init_database(files, c)
    /\ last' = Call("__init__", c, <<>>, <<>>)
    /\ UNCHANGED <<clock, crawl, added, callers, chat>>

\* one second passes
Tick ==
    /\ clock < MaxClock
    /\ clock' = clock + 1
    /\ last' = Call("tick", "", <<>>, <<>>)
    /\ UNCHANGED <<files, crawl, added, callers, chat>>

(***************************************************************************)
(* clients                                                                 *)
(***************************************************************************)
Handles == {"@alice", "User 6115501596"}
Emails == {"a@example.com", "b@example.com"}
\* the campaign_parameters dicts callers pass, as their items
CampaignParams ==
    {<<[k |-> "iteration_count", v |-> "3"]>>,
     <<[k |-> "iteration_count", v |-> "3"], [k |-> "lead_quantity", v |-> "10"]>>}

OneParams == <<[k |-> "iteration_count", v |-> "3"]>>

HasClient(db, handle) == \E i \in 1..Len(db.clients) : db.clients[i].telegram_handle = handle

ClientRow(handle, email, industry, location, params, now) ==
    [telegram_handle |-> handle, email |-> email, industry |-> industry,
     location |-> location, campaign_parameters |-> json_dumps_dict(params),
     created_at |-> now]

\* a faulty variant: INSERT OR REPLACE, the later call overwrites the row
create_client_replace(db, handle, email, industry, location, params, now) ==
    [ret |-> TRUE,
     db |-> [db EXCEPT !.clients =
                SelectSeq(db.clients, LAMBDA r : r.telegram_handle # handle)
                \o <<ClientRow(handle, email, industry, location, params, now)>>]]

\* INSERT INTO clients; the primary key raises IntegrityError, answered False
create_client(db, handle, email, industry, location, params, now) ==
    IF HasClient(db, handle)
    THEN [ret |-> FALSE, db |-> db]
    ELSE [ret |-> TRUE,
          db |-> [db EXCEPT !.clients =
                     Append(db.clients, ClientRow(handle, email, industry, location, params, now))]]

\* SELECT * FROM clients WHERE telegram_handle = ? ... fetchone()
select_client(db, handle) ==
    LET rows == SelectSeq(db.clients, LAMBDA r : r.telegram_handle = handle)
    IN IF rows = <<>> THEN NULL ELSE Some(rows[1])

\* the row as a dict, its campaign_parameters replaced by json.loads of them
get_client(db, handle) ==
    LET row == select_client(db, handle)
    IN IF IsNull(row) THEN NULL
       ELSE Some([Val(row) EXCEPT !.campaign_parameters = json_loads(@).val])

CreateClient(c, H, E, P) ==
    /\ Opened(c)
    /\ Len(Db(c).clients) < MaxClients
    /\ \E h \in H, e \in E, p \in P :
          LET r == create_client(Db(c), h, e, "Technology", "Silicon Valley", p, clock)
          IN /\ files' = [files EXCEPT ![_get_db_path(c)] = r.db]
             /\ last' = Call("create_client", c,
                             [telegram_handle |-> h, email |-> e, industry |-> "Technology",
                              location |-> "Silicon Valley", campaign_parameters |-> p],
                             r.ret)
    /\ UNCHANGED <<clock, crawl, added, callers, chat>>

GetClient(c) ==
    /\ Opened(c)
    /\ \E h \in Handles :
          last' = Call("get_client", c, [telegram_handle |-> h], get_client(Db(c), h))
    /\ UNCHANGED <<files, clock, crawl, added, callers, chat>>

(***************************************************************************)
(* industry_data                                                           *)
(***************************************************************************)
Tags == {"sales_statistics", "sales_trends"}

\* the tags arguments of the queries
QueryTags ==
    {NULL, Some(<<>>), Some(<<"sales_statistics">>), Some(<<"sales_trends", "sales_statistics">>)}

\* the entries callers add
Samples ==
    {[source |-> "https://example.com/1", title |-> NULL, content |-> <<"S", "a">>,
      tags |-> NULL],
     [source |-> "https://example.com/2", title |-> Some(<<"s">>), content |-> <<"b">>,
      tags |-> Some(<<"sales_statistics">>)],
     [source |-> "https://example.com/3", title |-> NULL, content |-> <<"b">>,
      tags |-> Some(<<"sales_trends", "sales_trends">>)],
     [source |-> "https://example.com/1", title |-> NULL, content |-> <<"S", "a">>,
      tags |-> Some(<<"sales_trends", "sales_statistics">>)],
     [source |-> "https://example.com/2", title |-> Some(<<"s">>), content |-> <<"b">>,
      tags |-> Some(<<>>)]}

\* what another program can leave in the tags column, which is TEXT with no
\* constraint: NULL, the empty text, a text that does not parse, a JSON
\* string, a JSON object
MalformedTags ==
    {NULL,
     Some(<<>>),
     Some(<<Tok("[", ""), Tok("str", "sales_trends")>>),
     Some(<<Tok("str", "sales_trends")>>),
     Some(json_dumps_dict(<<[k |-> "sales_trends", v |-> "1"]>>))}

\* the tag lists of well-formed rows
TagLists == {<<>>, <<"sales_trends">>, <<"sales_statistics", "sales_trends">>}

OneSample ==
    [source |-> "https://example.com/3", title |-> NULL, content |-> <<"b">>,
     tags |-> Some(<<"sales_trends", "sales_trends">>)]

Keywords == {<<"s">>, <<"s", "A">>, <<"_">>}

pain_points_todo == "TODO: Extract pain points using LLM"

\* `x if tags else None`: None and the empty list are both falsy
Truthy(o) == ~IsNull(o) /\ Val(o) # <<>>

\* a faulty variant: INSERT OR REPLACE keyed by source, an entry of the same
\* source is overwritten under its id
add_industry_data_upsert(db, source, content, pain_points, title, tags, crawled_at, now) ==
    LET old == SelectSeq(db.industry_data, LAMBDA r : r.source = source)
        id == IF old = <<>> THEN Len(db.industry_data) + 1 ELSE old[1].id
        row == [id |-> id, source |-> source, title |-> title, content |-> content,
                pain_points |-> pain_points,
                tags |-> IF Truthy(tags) THEN Some(json_dumps(Val(tags))) ELSE NULL,
                crawled_at |-> crawled_at, created_at |-> now]
    IN [ret |-> id,
        db |-> [db EXCEPT !.industry_data =
                   IF old = <<>> THEN Append(@, row)
                   ELSE [i \in 1..Len(@) |-> IF @[i].id = id THEN row ELSE @[i]]]]

\* INSERT INTO industry_data; the id is cursor.lastrowid
add_industry_data(db, source, content, pain_points, title, tags, crawled_at, now) ==
    LET id == Len(db.industry_data) + 1
        row == [id |-> id, source |-> source, title |-> title, content |-> content,
                pain_points |-> pain_points,
                tags |-> IF Truthy(tags) THEN Some(json_dumps(Val(tags))) ELSE NULL,
                crawled_at |-> crawled_at, created_at |-> now]
    IN [ret |-> id, db |-> [db EXCEPT !.industry_data = Append(@, row)]]

\* a faulty variant: a row with no tags passes every tag condition
_json_array_contains_lenient(json_array, value) ==
    IF ~Truthy(json_array) THEN TRUE
    ELSE LET array == json_loads(Val(json_array))
         IN array.ok /\ array.kind = "list" /\ value \in Range(array.val)

\* the SQL function json_array_contains(tags, ?)
_json_array_contains(json_array, value) ==
    IF ~Truthy(json_array) THEN FALSE
    ELSE LET array == json_loads(Val(json_array))
         IN array.ok /\ array.kind = "list" /\ value \in Range(array.val)

\* ' OR '.join("json_array_contains(tags, ?)" for _ in tags)
tag_conditions(row, tags) == \E i \in 1..Len(tags) : _json_array_contains(row.tags, tags[i])

Take(s, n) == IF n < 0 \/ n >= Len(s) THEN s ELSE SubSeq(s, 1, n)

Perms(n) == {f \in [1..n -> 1..n] : \A i, j \in 1..n : i # j => f[i] # f[j]}

\* ORDER BY column DESC: every order of the rows that is descending in the
\* column; SQL leaves the order of rows with equal keys open
order_by_desc(rows, column) ==
    {[i \in 1..Len(rows) |-> rows[f[i]]] :
        f \in {g \in Perms(Len(rows)) :
                 \A i, j \in 1..Len(rows) :
                     i < j => rows[g[i]][column] >= rows[g[j]][column]}}

CreatedAt == "created_at"

\* a decoded value that is not a list, kept as its kind: a str or a number
\* ("scalar"), or a dict
NotAList(kind) == <<"not a list", kind>>

\* the loop over cursor.fetchall(): tags decoded, whatever JSON value they
\* are, and None when they do not parse
decode_tags(row) ==
    [row EXCEPT !.tags =
        IF ~Truthy(row.tags) THEN row.tags
        ELSE LET v == json_loads(Val(row.tags))
             IN IF ~v.ok THEN NULL
                ELSE IF v.kind = "list" THEN Some(v.val)
                ELSE Some(NotAList(v.kind))]

DecodeAll(rows) == [i \in 1..Len(rows) |-> decode_tags(rows[i])]

\* the results get_industry_data can return
get_industry_data(db, limit, tags) ==
    LET rows == IF Truthy(tags)
                THEN SelectSeq(db.industry_data, LAMBDA r : tag_conditions(r, Val(tags)))
                ELSE db.industry_data
    IN {DecodeAll(Take(s, limit)) : s \in order_by_desc(rows, CreatedAt)}

Lower(ch) == CASE ch = "S" -> "s" [] ch = "A" -> "a" [] ch = "B" -> "b" [] OTHER -> ch

\* SQLite's LIKE: % is any run of characters, _ any one character, ASCII case folded
RECURSIVE like(_, _)
like(text, pattern) ==
    IF pattern = <<>> THEN text = <<>>
    ELSE IF pattern[1] = "%"
        THEN like(text, Tail(pattern)) \/ (text # <<>> /\ like(Tail(text), pattern))
    ELSE IF text = <<>> THEN FALSE
    ELSE /\ (pattern[1] = "_" \/ Lower(pattern[1]) = Lower(text[1]))
         /\ like(Tail(text), Tail(pattern))

\* x LIKE ? is NULL, so not true, for a NULL x
LikeNullable(o, pattern) == ~IsNull(o) /\ like(Val(o), pattern)

\* the results search_industry_data can return
search_industry_data(db, keyword, tags) ==
    LET pattern == <<"%">> \o keyword \o <<"%">>
        hit(r) == like(r.content, pattern) \/ LikeNullable(r.title, pattern)
        rows == IF Truthy(tags)
                THEN SelectSeq(db.industry_data,
                               LAMBDA r : tag_conditions(r, Val(tags)) /\ hit(r))
                ELSE SelectSeq(db.industry_data, hit)
    IN {DecodeAll(s) : s \in order_by_desc(rows, CreatedAt)}

AddIndustryData(c, S) ==
    /\ Opened(c)
    /\ Len(Db(c).industry_data) < MaxEntries
    /\ \E e \in S :
          LET r == add_industry_data(Db(c), e.source, e.content, pain_points_todo,
                                     e.title, e.tags, NULL, clock)
          IN /\ files' = [files EXCEPT ![_get_db_path(c)] = r.db]
             /\ added' = [added EXCEPT ![_get_db_path(c)] = Append(@, e.tags)]
             /\ last' = Call("add_industry_data", c, e, r.ret)
    /\ UNCHANGED <<clock, crawl, callers, chat>>

\* a row written to the file by another program, with any tags text
ForeignInsert(c) ==
    /\ Opened(c)
    /\ Len(Db(c).industry_data) < MaxEntries
    /\ \E t \in MalformedTags \cup {Some(json_dumps(l)) : l \in TagLists} :
          LET id == Len(Db(c).industry_data) + 1
              row == [id |-> id, source |-> "https://example.com/raw", title |-> NULL,
                      content |-> <<"b">>, pain_points |-> pain_points_todo, tags |-> t,
                      crawled_at |-> NULL, created_at |-> clock]
          IN /\ files' = [files EXCEPT ![_get_db_path(c)].industry_data = Append(@, row)]
             /\ last' = Call("INSERT INTO industry_data", c, [tags |-> t], id)
    /\ UNCHANGED <<clock, crawl, added, callers, chat>>

Limits == 1..MaxEntries

GetIndustryData(c) ==
    /\ Opened(c)
    /\ \E n \in Limits, t \in QueryTags :
          \E r \in get_industry_data(Db(c), n, t) :
              last' = Call("get_industry_data", c, [limit |-> n, tags |-> t], r)
    /\ UNCHANGED <<files, clock, crawl, added, callers, chat>>

SearchIndustryData(c) ==
    /\ Opened(c)
    /\ \E k \in Keywords, t \in QueryTags :
          \E r \in search_industry_data(Db(c), k, t) :
              last' = Call("search_industry_data", c, [keyword |-> k, tags |-> t], r)
    /\ UNCHANGED <<files, clock, crawl, added, callers, chat>>

(***************************************************************************)
(* lead_bucket                                                             *)
(***************************************************************************)
\* the leads callers add
LeadSamples ==
    {[company_name |-> "Tech Corp", website |-> "https://techcorp.com",
      contact_info |-> "contact@techcorp.com", details |-> "Growing tech company"]}

\* the updates argument of update_lead: a dict from field names to values
LeadUpdates ==
    {<<>>,
     ("bogus" :> "1"),
     ("details" :> "x"),
     ("details" :> "x") @@ ("id" :> "9") @@ ("created_at" :> "never"),
     ("website" :> "https://x.example") @@ ("contact_info" :> "x@example.com"),
     ("company_name" :> "X Corp") @@ ("details" :> "x") @@ ("bogus" :> "1")}

\* INSERT INTO lead_bucket
add_lead(db, company_name, website, contact_info, details, now) ==
    LET id == Len(db.lead_bucket) + 1
        row == [id |-> id, company_name |-> company_name, website |-> website,
                contact_info |-> contact_info, details |-> details, created_at |-> now]
    IN [ret |-> id, db |-> [db EXCEPT !.lead_bucket = Append(@, row)]]

valid_fields == {"company_name", "website", "contact_info", "details"}

\* UPDATE lead_bucket SET k = ?, ... WHERE id = ?
SetLeadFields(rows, lead_id, updates, fields) ==
    LET new(r, k) == IF k \in fields THEN updates[k] ELSE r[k]
    IN [i \in 1..Len(rows) |->
          IF rows[i].id # lead_id THEN rows[i]
          ELSE [id |-> new(rows[i], "id"),
                company_name |-> new(rows[i], "company_name"),
                website |-> new(rows[i], "website"),
                contact_info |-> new(rows[i], "contact_info"),
                details |-> new(rows[i], "details"),
                created_at |-> new(rows[i], "created_at")]]

\* a faulty variant: id and created_at are writable, and any non-empty request
\* is answered True
update_lead_unfiltered(db, lead_id, updates) ==
    LET update_fields == (DOMAIN updates) \cap (valid_fields \cup {"id", "created_at"})
    IN IF DOMAIN updates = {} THEN [ret |-> FALSE, db |-> db]
       ELSE [ret |-> TRUE,
             db |-> [db EXCEPT !.lead_bucket = SetLeadFields(@, lead_id, updates, update_fields)]]

\* a faulty variant: a request with a name outside the allow-list is refused
update_lead_strict(db, lead_id, updates) ==
    LET update_fields == {k \in DOMAIN updates : k \in valid_fields}
    IN IF update_fields = {} \/ update_fields # DOMAIN updates THEN [ret |-> FALSE, db |-> db]
       ELSE [ret |-> TRUE,
             db |-> [db EXCEPT !.lead_bucket = SetLeadFields(@, lead_id, updates, update_fields)]]

\* a faulty variant: the UPDATE writes every allow-listed column, and a column
\* the request does not name is written empty
update_lead_rewrite(db, lead_id, updates) ==
    LET update_fields == {k \in DOMAIN updates : k \in valid_fields}
        whole == [k \in valid_fields |-> IF k \in update_fields THEN updates[k] ELSE ""]
    IN IF update_fields = {} THEN [ret |-> FALSE, db |-> db]
       ELSE [ret |-> TRUE,
             db |-> [db EXCEPT !.lead_bucket = SetLeadFields(@, lead_id, whole, valid_fields)]]

\* the allow-listed fields of the request, written in one UPDATE
update_lead(db, lead_id, updates) ==
    LET update_fields == {k \in DOMAIN updates : k \in valid_fields}
    IN IF update_fields = {} THEN [ret |-> FALSE, db |-> db]
       ELSE [ret |-> TRUE,
             db |-> [db EXCEPT !.lead_bucket = SetLeadFields(@, lead_id, updates, update_fields)]]

AddLead(c) ==
    /\ Opened(c)
    /\ Len(Db(c).lead_bucket) < MaxLeads
    /\ \E l \in LeadSamples :
          LET r == add_lead(Db(c), l.company_name, l.website, l.contact_info, l.details, clock)
          IN /\ files' = [files EXCEPT ![_get_db_path(c)] = r.db]
             /\ last' = Call("add_lead", c, l, r.ret)
    /\ UNCHANGED <<clock, crawl, added, callers, chat>>

UpdateLead(c, Updates) ==
    /\ Opened(c)
    /\ \E id \in 1..(MaxLeads + 1), u \in Updates :
          LET r == update_lead(Db(c), id, u)
          IN /\ files' = [files EXCEPT ![_get_db_path(c)] = r.db]
             /\ last' = Call("update_lead", c, [lead_id |-> id, updates |-> u], r.ret)
    /\ UNCHANGED <<clock, crawl, added, callers, chat>>

(***************************************************************************)
(* tailored_solutions                                                      *)
(***************************************************************************)
valid_statuses == {"pending", "sent", "reviewed", "approved", "rejected"}

\* the status arguments callers pass
StatusArgs == valid_statuses \cup {"archived"}

\* a faulty variant: the status column has another default
add_solution_draft(db, lead_id, solution_text, now) ==
    LET id == Len(db.tailored_solutions) + 1
        row == [id |-> id, lead_id |-> lead_id, solution_text |-> solution_text,
                generated_at |-> now, status |-> "draft"]
    IN [ret |-> id, db |-> [db EXCEPT !.tailored_solutions = Append(@, row)]]

\* INSERT INTO tailored_solutions; status takes its DEFAULT 'pending'
add_solution(db, lead_id, solution_text, now) ==
    LET id == Len(db.tailored_solutions) + 1
        row == [id |-> id, lead_id |-> lead_id, solution_text |-> solution_text,
                generated_at |-> now, status |-> "pending"]
    IN [ret |-> id, db |-> [db EXCEPT !.tailored_solutions = Append(@, row)]]

SetStatus(rows, solution_id, status) ==
    [i \in 1..Len(rows) |->
        IF rows[i].id = solution_id THEN [rows[i] EXCEPT !.status = status] ELSE rows[i]]

\* a faulty variant: the status is written without the membership test
update_solution_status_unchecked(db, solution_id, status) ==
    [ret |-> TRUE,
     db |-> [db EXCEPT !.tailored_solutions = SetStatus(@, solution_id, status)]]

\* UPDATE tailored_solutions SET status = ? WHERE id = ?, for a valid status
update_solution_status(db, solution_id, status) ==
    IF status \notin valid_statuses THEN [ret |-> FALSE, db |-> db]
    ELSE [ret |-> TRUE,
          db |-> [db EXCEPT !.tailored_solutions = SetStatus(@, solution_id, status)]]

AddSolution(c, LeadIds) ==
    /\ Opened(c)
    /\ Len(Db(c).tailored_solutions) < MaxSolutions
    /\ \E l \in LeadIds :
          LET r == add_solution(Db(c), l, "Custom solution", clock)
          IN /\ files' = [files EXCEPT ![_get_db_path(c)] = r.db]
             /\ last' = Call("add_solution", c, [lead_id |-> l], r.ret)
    /\ UNCHANGED <<clock, crawl, added, callers, chat>>

UpdateSolutionStatus(c, Statuses) ==
    /\ Opened(c)
    /\ \E id \in 1..(MaxSolutions + 1), st \in Statuses :
          LET r == update_solution_status(Db(c), id, st)
          IN /\ files' = [files EXCEPT ![_get_db_path(c)] = r.db]
             /\ last' = Call("update_solution_status", c,
                             [solution_id |-> id, status |-> st], r.ret)
    /\ UNCHANGED <<clock, crawl, added, callers, chat>>

(***************************************************************************)
(* outreach_log                                                            *)
(***************************************************************************)
\* the response arguments callers pass: a text or None
Responses == {Some("Interested in learning more"), Some("Not interested"), NULL}

\* INSERT INTO outreach_log; response and updated_at have no default
log_outreach(db, lead_id, message_sent, now) ==
    LET id == Len(db.outreach_log) + 1
        row == [id |-> id, lead_id |-> lead_id, message_sent |-> message_sent,
                sent_at |-> now, response |-> NULL, updated_at |-> NULL]
    IN [ret |-> id, db |-> [db EXCEPT !.outreach_log = Append(@, row)]]

\* UPDATE outreach_log SET response = ?, updated_at = CURRENT_TIMESTAMP WHERE id = ?
update_outreach_response(db, outreach_id, response, now) ==
    [ret |-> TRUE,
     db |-> [db EXCEPT !.outreach_log =
                [i \in 1..Len(@) |->
                    IF @[i].id = outreach_id
                    THEN [@[i] EXCEPT !.response = response, !.updated_at = Some(now)]
                    ELSE @[i]]]]

SentAt == "sent_at"

\* outreach_log JOIN lead_bucket ON ol.lead_id = lb.id: one row per pair
JoinLead(db, rows) ==
    LET joined(r) == \E i \in 1..Len(db.lead_bucket) : db.lead_bucket[i].id = r.lead_id
        name(r) == (CHOOSE l \in Range(db.lead_bucket) : l.id = r.lead_id).company_name
        kept == SelectSeq(rows, joined)
    IN [i \in 1..Len(kept) |->
          [id |-> kept[i].id, lead_id |-> kept[i].lead_id,
           message_sent |-> kept[i].message_sent, sent_at |-> kept[i].sent_at,
           response |-> kept[i].response, updated_at |-> kept[i].updated_at,
           company_name |-> name(kept[i])]]

\* the results get_pending_responses can return
get_pending_responses(db) ==
    order_by_desc(JoinLead(db, SelectSeq(db.outreach_log, LAMBDA r : IsNull(r.response))),
                  SentAt)

LogOutreach(c, LeadIds) ==
    /\ Opened(c)
    /\ Len(Db(c).outreach_log) < MaxOutreach
    /\ \E l \in LeadIds :
          LET r == log_outreach(Db(c), l, "Initial contact message", clock)
          IN /\ files' = [files EXCEPT ![_get_db_path(c)] = r.db]
             /\ last' = Call("log_outreach", c, [lead_id |-> l], r.ret)
    /\ UNCHANGED <<clock, crawl, added, callers, chat>>

UpdateOutreachResponse(c, Resp) ==
    /\ Opened(c)
    /\ \E id \in 1..(MaxOutreach + 1), x \in Resp :
          LET r == update_outreach_response(Db(c), id, x, clock)
          IN /\ files' = [files EXCEPT ![_get_db_path(c)] = r.db]
             /\ last' = Call("update_outreach_response", c,
                             [outreach_id |-> id, response |-> x], r.ret)
    /\ UNCHANGED <<clock, crawl, added, callers, chat>>

GetPendingResponses(c) ==
    /\ Opened(c)
    /\ \E r \in get_pending_responses(Db(c)) :
          last' = Call("get_pending_responses", c, <<>>, r)
    /\ UNCHANGED <<files, clock, crawl, added, callers, chat>>

(***************************************************************************)
(* analytics                                                               *)
(***************************************************************************)
\* COUNT(*) ... GROUP BY status, for one status
Count(rows, status) == Len(SelectSeq(rows, LAMBDA r : r.status = status))

\* SUM(CASE WHEN response IS NOT NULL THEN 1 ELSE 0 END): NULL over no rows
SqlSum(rows) ==
    IF rows = <<>> THEN NULL
    ELSE Some(Len(SelectSeq(rows, LAMBDA r : ~IsNull(r.response))))

\* the three SELECTs of get_campaign_stats
get_campaign_stats(db) ==
    [total_leads |-> Len(db.lead_bucket),
     solution_stats |->
        [st \in {r.status : r \in Range(db.tailored_solutions)} |->
            Count(db.tailored_solutions, st)],
     outreach_stats |->
        [total_outreach |-> Len(db.outreach_log),
         responses |-> SqlSum(db.outreach_log)]]

GetCampaignStats(c) ==
    /\ Opened(c)
    /\ last' = Call("get_campaign_stats", c, <<>>, get_campaign_stats(Db(c)))
    /\ UNCHANGED <<files, clock, crawl, added, callers, chat>>

(***************************************************************************)
(* The outcome of a call that can raise: the exception, or the value.      *)
(***************************************************************************)
Raised(e) == [raised |-> e, ret |-> NULL]

Returned(v) == [raised |-> "", ret |-> Some(v)]

(***************************************************************************)
(* the listing queries and the export                                      *)
(***************************************************************************)
\* the status arguments of get_leads: None, or a status
LeadStatusArgs == {NULL, Some("pending"), Some("approved")}

\* SELECT lb.*, ts.status: one row of the join
LeadRow(lb, status) ==
    [id |-> lb.id, company_name |-> lb.company_name, website |-> lb.website,
     contact_info |-> lb.contact_info, details |-> lb.details,
     created_at |-> lb.created_at, status |-> status]

\* a faulty variant: one row per lead, with the status of its first solution
left_join_solutions_distinct(db, i) ==
    [k \in i..Len(db.lead_bucket) |->
        LET lb == db.lead_bucket[k]
            ts == SelectSeq(db.tailored_solutions, LAMBDA t : t.lead_id = lb.id)
        IN LeadRow(lb, IF ts = <<>> THEN NULL ELSE Some(ts[1].status))]

\* lead_bucket lb LEFT JOIN tailored_solutions ts ON lb.id = ts.lead_id, from
\* the i-th lead on: a row per solution of the lead, or one row with a NULL
\* status for a lead that has none
RECURSIVE left_join_solutions(_, _)
left_join_solutions(db, i) ==
    IF i > Len(db.lead_bucket) THEN <<>>
    ELSE LET lb == db.lead_bucket[i]
             ts == SelectSeq(db.tailored_solutions, LAMBDA t : t.lead_id = lb.id)
             rows == IF ts = <<>> THEN <<LeadRow(lb, NULL)>>
                     ELSE [k \in 1..Len(ts) |-> LeadRow(lb, Some(ts[k].status))]
         IN rows \o left_join_solutions(db, i + 1)

\* the results get_leads can return: WHERE ts.status = ? when a status is
\* given, ORDER BY lb.created_at DESC LIMIT ?
get_leads(db, status, limit) ==
    LET joined == left_join_solutions(db, 1)
        rows == IF ~IsNull(status) /\ Val(status) # ""
                THEN SelectSeq(joined, LAMBDA r : r.status = status)
                ELSE joined
    IN {Take(s, limit) : s \in order_by_desc(rows, CreatedAt)}

GeneratedAt == "generated_at"

\* the results get_solutions can return: the filters that are given, ORDER BY
\* generated_at DESC, and no LIMIT
get_solutions(db, lead_id, status) ==
    LET by_lead == IF IsNull(lead_id) THEN db.tailored_solutions
                   ELSE SelectSeq(db.tailored_solutions, LAMBDA r : r.lead_id = Val(lead_id))
        rows == IF ~IsNull(status) /\ Val(status) # ""
                THEN SelectSeq(by_lead, LAMBDA r : r.status = Val(status))
                ELSE by_lead
    IN order_by_desc(rows, GeneratedAt)

\* the results get_outreach_history can return: outreach_log JOIN lead_bucket,
\* of one lead when a lead is given, ORDER BY ol.sent_at DESC LIMIT ?
get_outreach_history(db, lead_id, limit) ==
    LET rows == IF IsNull(lead_id) THEN db.outreach_log
                ELSE SelectSeq(db.outreach_log, LAMBDA r : r.lead_id = Val(lead_id))
    IN {Take(s, limit) : s \in order_by_desc(JoinLead(db, rows), SentAt)}

\* the outcomes of export_campaign_data: dict(cursor.fetchone()) raises
\* TypeError when clients is empty; SELECT * FROM clients LIMIT 1 has no ORDER
\* BY, so any client row can be the one; the row is returned as stored
export_campaign_data(db) ==
    IF db.clients = <<>> THEN {Raised("TypeError")}
    ELSE {Returned([client_info |-> ci, industry_data |-> ind, leads |-> le,
                    solutions |-> so, outreach_history |-> ou,
                    campaign_stats |-> get_campaign_stats(db)]) :
            ci \in Range(db.clients),
            ind \in get_industry_data(db, ExportLimit, NULL),
            le \in get_leads(db, NULL, ExportLimit),
            so \in get_solutions(db, NULL, NULL),
            ou \in get_outreach_history(db, NULL, ExportLimit)}

GetLeads(c) ==
    /\ Opened(c)
    /\ \E st \in LeadStatusArgs, n \in 1..(MaxLeads + MaxSolutions) :
          \E r \in get_leads(Db(c), st, n) :
              last' = Call("get_leads", c, [status |-> st, limit |-> n], r)
    /\ UNCHANGED <<files, clock, crawl, added, callers, chat>>

ExportCampaignData(c) ==
    /\ Opened(c)
    /\ \E r \in export_campaign_data(Db(c)) :
          last' = Call("export_campaign_data", c, <<>>, r)
    /\ UNCHANGED <<files, clock, crawl, added, callers, chat>>

(***************************************************************************)
(* The database cannot be opened or written: sqlite3.connect or execute    *)
(* raises sqlite3.OperationalError inside the method.                      *)
(***************************************************************************)
\* the three update methods answer `except sqlite3.Error: return False`;
\* create_client catches sqlite3.IntegrityError only, and add_industry_data,
\* add_lead, add_solution and log_outreach have no try: the error propagates
on_operational_error(op) ==
    IF op \in {"update_lead", "update_solution_status", "update_outreach_response"}
    THEN Returned(FALSE)
    ELSE Raised("OperationalError")

\* a writing method called, with arguments that reach the database (an
\* allow-listed field, a valid status), while the database is unavailable
StorageFails(c) ==
    /\ Opened(c)
    /\ \E op \in {"create_client", "add_industry_data", "add_lead", "add_solution",
                  "log_outreach", "update_lead", "update_solution_status",
                  "update_outreach_response"} :
          last' = Call(op, c, [storage |-> "unavailable"], on_operational_error(op))
    /\ UNCHANGED <<files, clock, crawl, added, callers, chat>>

(***************************************************************************)
(* IndustryCrawler.crawl_industry_data                                     *)
(*                                                                         *)
(* crawl.env[i] is what the world does to the i-th URL of the batch, drawn  *)
(* when its fetch starts: the fetch fails ("fetch_error"), returns an      *)
(* empty document ("empty"), the parse or conversion raises                *)
(* ("normalize_error"), the insert raises ("storage_error"), or all of     *)
(* them succeed ("ok").                                                    *)
(***************************************************************************)
Urls == {"https://example.com/1", "https://example.com/2"}

Env == {"fetch_error", "empty", "normalize_error", "storage_error", "ok"}

\* the tags arguments of the batches
CrawlTags == {NULL, Some(<<"sales_statistics">>)}

PreviewLen == 200

SeqsUpTo(S, n) == UNION {[1..k -> S] : k \in 0..n}

\* the document a URL serves: its <title>, if any, and its text
PageOf(url) ==
    IF url = "https://example.com/1"
    THEN [title |-> NULL, body |-> <<"S", "a">>]
    ELSE [title |-> Some(<<"s">>), body |-> <<"b">>]

\* _get_page_content: the document, or None on any failure
_get_page_content(url, env) ==
    IF env = "fetch_error" THEN NULL
    ELSE IF env = "empty" THEN Some([title |-> NULL, body |-> <<>>])
    ELSE Some(PageOf(url))

\* `if not content`
NoContent(page) == IsNull(page) \/ (IsNull(Val(page).title) /\ Val(page).body = <<>>)

\* the for loop moves to the next URL, or ends
next_url(cr) ==
    [cr EXCEPT !.i = @ + 1,
               !.pc = IF cr.i + 1 > Len(cr.urls) THEN "return" ELSE "fetch",
               !.page = NULL, !.title = NULL, !.content = <<>>]

\* a faulty variant: the first failure ends the batch (break for continue)
skip_url_abort(cr) ==
    [cr EXCEPT !.i = Len(cr.urls) + 1, !.pc = "return", !.page = NULL,
               !.title = NULL, !.content = <<>>]

\* `continue`, and the except clause that only logs: on to the next URL
skip_url(cr) == next_url(cr)

\* the dict appended to results
Outcome(id, url, title, content, tags) ==
    [id |-> id, source |-> url, title |-> title,
     content |-> Take(content, PreviewLen) \o <<".", ".", ".">>,
     pain_points |-> pain_points_todo, tags |-> tags]

CrawlStart(c) ==
    /\ Opened(c)
    /\ crawl.pc \in {"idle", "done"}
    /\ \E urls \in SeqsUpTo(Urls, MaxUrls), t \in CrawlTags :
          /\ Len(Db(c).industry_data) + Len(urls) <= MaxUrls
          /\ crawl' = [IdleCrawl EXCEPT !.pc = IF urls = <<>> THEN "return" ELSE "fetch",
                                        !.client_id = c, !.urls = urls, !.tags = t,
                                        !.i = 1, !.base = Len(Db(c).industry_data)]
    /\ last' = Call("crawl_industry_data:start", c, <<>>, <<>>)
    /\ UNCHANGED <<files, clock, added, callers, chat>>

\* content = await self._get_page_content(url); if not content: continue
CrawlFetch ==
    /\ crawl.pc = "fetch"
    /\ \E e \in Env :
          LET page == _get_page_content(crawl.urls[crawl.i], e)
              cr == [crawl EXCEPT !.env = Append(@, e)]
          IN crawl' = IF NoContent(page) THEN skip_url(cr)
                      ELSE [cr EXCEPT !.pc = "normalize", !.page = page]
    /\ last' = Call("crawl_industry_data:fetch", crawl.client_id, <<>>, <<>>)
    /\ UNCHANGED <<files, clock, added, callers, chat>>

\* BeautifulSoup, the title, the main content, markdownify
CrawlNormalize ==
    /\ crawl.pc = "normalize"
    /\ crawl' = IF crawl.env[crawl.i] = "normalize_error" THEN skip_url(crawl)
                ELSE [crawl EXCEPT !.pc = "persist", !.title = Val(crawl.page).title,
                                   !.content = Val(crawl.page).body]
    /\ last' = Call("crawl_industry_data:normalize", crawl.client_id, <<>>, <<>>)
    /\ UNCHANGED <<files, clock, added, callers, chat>>

\* entry_id = self.db.add_industry_data(...); results.append({...})
CrawlPersist ==
    /\ crawl.pc = "persist"
    /\ LET c == crawl.client_id
           url == crawl.urls[crawl.i]
           r == add_industry_data(Db(c), url, crawl.content, pain_points_todo,
                                  crawl.title, crawl.tags, Some(clock), clock)
       IN IF crawl.env[crawl.i] = "storage_error"
          THEN /\ crawl' = skip_url(crawl)
               /\ UNCHANGED <<files, added>>
          ELSE /\ files' = [files EXCEPT ![_get_db_path(c)] = r.db]
               /\ added' = [added EXCEPT ![_get_db_path(c)] = Append(@, crawl.tags)]
               /\ crawl' = [next_url(crawl) EXCEPT !.results =
                               Append(@, Outcome(r.ret, url, crawl.title, crawl.content,
                                                 crawl.tags))]
    /\ last' = Call("crawl_industry_data:persist", crawl.client_id, <<>>, <<>>)
    /\ UNCHANGED <<clock, callers, chat>>

\* return results
CrawlReturn ==
    /\ crawl.pc = "return"
    /\ crawl' = [crawl EXCEPT !.pc = "done"]
    /\ last' = Call("crawl_industry_data", crawl.client_id,
                    [urls |-> crawl.urls, tags |-> crawl.tags], crawl.results)
    /\ UNCHANGED <<files, clock, added, callers, chat>>

(***************************************************************************)
(* The onboarding bot: one conversation per user, a step per update.       *)
(***************************************************************************)
MaxDialogues == 2

\* the text messages users send
ValidJson == "{\"iteration_count\": 3}"
BrokenJson == "{\"iteration_count\": 3"
Texts == {"a@example.com", ValidJson, BrokenJson}
\* the texts sent in a state of the conversation
Answers(state) ==
    CASE state = EMAIL -> {"a@example.com", ValidJson}
      [] state = INDUSTRY -> {"Technology"}
      [] state = LOCATION -> {"Silicon Valley"}
      [] OTHER -> Texts

\* the JSON tokens of a message text
lex(text) ==
    CASE text = ValidJson -> json_dumps_dict(OneParams)
      [] text = BrokenJson -> SubSeq(json_dumps_dict(OneParams), 1, 4)
      [] OTHER -> <<Tok("word", text)>>

Welcome == "Welcome to Gorilla7"
OnboardingComplete == "Onboarding complete! Your campaign is ready to start."
ProfileIssue == "There was an issue creating your profile. Please try again with /start"
InvalidJson == "Invalid JSON format. Please try again with the correct format"
Cancelled == "Onboarding cancelled. Use /start to begin again."

\* start: the client id is the username, or the user id if none is set
start_client_id(u) == IF IsNull(username(u)) THEN u ELSE Val(username(u))

start_display_name(u) == IF IsNull(username(u)) THEN "User " \o u ELSE "@" \o Val(username(u))

\* /start outside a conversation (the entry point; allow_reentry is off)
BotStart(u) ==
    /\ chat[u].state = END
    /\ chat[u].dialogues < MaxDialogues
    /\ files' = _init_database(files, start_client_id(u))
    /\ chat' = [chat EXCEPT ![u] =
                   [@ EXCEPT !.state = EMAIL,
                             !.user_data.client_id = start_client_id(u),
                             !.user_data.display_name = start_display_name(u),
                             !.reply = Welcome,
                             !.update = [kind |-> "/start", text |-> ""],
                             !.dialogues = @ + 1,
                             !.creates = 0]]
    /\ last' = Call("__init__", start_client_id(u), <<>>, <<>>)
    /\ UNCHANGED <<clock, crawl, added, callers>>

\* a faulty variant: a text that does not parse is taken as an empty dict and
\* the profile is created
handle_campaign_params_default(fs, user_data, text, now) ==
    LET v == json_loads(lex(text))
        opened == _init_database(fs, user_data.client_id)
        path == _get_db_path(user_data.client_id)
        r == create_client(opened[path], user_data.display_name, user_data.email,
                           user_data.industry, user_data.location,
                           IF v.ok THEN v.val ELSE <<>>, now)
    IN [state |-> END,
        files |-> [opened EXCEPT ![path] = r.db],
        reply |-> IF r.ret THEN OnboardingComplete ELSE ProfileIssue,
        calls |-> 1,
        ret |-> Some(r.ret)]

\* json.loads of the text; on success DatabaseManager(client_id).create_client
\* under the display name and END, on JSONDecodeError the same state again
handle_campaign_params(fs, user_data, text, now) ==
    LET v == json_loads(lex(text))
        opened == _init_database(fs, user_data.client_id)
        path == _get_db_path(user_data.client_id)
        r == create_client(opened[path], user_data.display_name, user_data.email,
                           user_data.industry, user_data.location, v.val, now)
    IN IF ~v.ok
       THEN [state |-> CAMPAIGN_PARAMS, files |-> fs, reply |-> InvalidJson, calls |-> 0,
             ret |-> NULL]
       ELSE [state |-> END,
             files |-> [opened EXCEPT ![path] = r.db],
             reply |-> IF r.ret THEN OnboardingComplete ELSE ProfileIssue,
             calls |-> 1,
             ret |-> Some(r.ret)]

\* a text message that is not a command, handled by the handler of the state
BotText(u) ==
    /\ chat[u].state # END
    /\ \E text \in Answers(chat[u].state) :
          LET c == chat[u]
              upd == [kind |-> "text", text |-> text]
              r == handle_campaign_params(files, c.user_data, text, clock)
          IN \/ /\ c.state = EMAIL
                /\ chat' = [chat EXCEPT ![u] =
                               [@ EXCEPT !.state = INDUSTRY, !.user_data.email = text,
                                         !.reply = "What industry are you targeting?",
                                         !.update = upd]]
                /\ UNCHANGED <<files, last>>
             \/ /\ c.state = INDUSTRY
                /\ chat' = [chat EXCEPT ![u] =
                               [@ EXCEPT !.state = LOCATION, !.user_data.industry = text,
                                         !.reply = "What's your target location/region?",
                                         !.update = upd]]
                /\ UNCHANGED <<files, last>>
             \/ /\ c.state = LOCATION
                /\ chat' = [chat EXCEPT ![u] =
                               [@ EXCEPT !.state = CAMPAIGN_PARAMS, !.user_data.location = text,
                                         !.reply = "Finally, let's set up your campaign parameters.",
                                         !.update = upd]]
                /\ UNCHANGED <<files, last>>
             \/ /\ c.state = CAMPAIGN_PARAMS
                /\ chat' = [chat EXCEPT ![u] =
                               [@ EXCEPT !.state = r.state, !.reply = r.reply, !.update = upd,
                                         !.creates = @ + r.calls]]
                /\ files' = r.files
                /\ last' = IF r.calls = 0 THEN last
                           ELSE Call("create_client", c.user_data.client_id,
                                     [telegram_handle |-> c.user_data.display_name,
                                      email |-> c.user_data.email,
                                      industry |-> c.user_data.industry,
                                      location |-> c.user_data.location,
                                      campaign_parameters |-> json_loads(lex(text)).val],
                                     Val(r.ret))
    /\ UNCHANGED <<clock, crawl, added, callers>>

\* /cancel inside a conversation (the fallback)
BotCancel(u) ==
    /\ chat[u].state # END
    /\ chat' = [chat EXCEPT ![u] =
                   [@ EXCEPT !.state = END, !.reply = Cancelled,
                             !.update = [kind |-> "/cancel", text |-> ""]]]
    /\ UNCHANGED <<files, clock, last, crawl, added, callers>>

(***************************************************************************)
(* Concurrent callers of one tenant. Every method call opens a connection  *)
(* of its own; SQLite lets one connection at a time write and shows the    *)
(* others committed rows only, so a statement with its commit is one step, *)
(* and the statements of the calls of different callers interleave.        *)
(* callers[p].during is a history field: the states of the store that have *)
(* existed since the call of p began.                                      *)
(***************************************************************************)
\* the calls concurrent callers make
CreateCalls ==
    {[op |-> "create_client",
      args |-> [telegram_handle |-> h, email |-> e, industry |-> "Technology",
                location |-> "Silicon Valley", campaign_parameters |-> OneParams]] :
        h \in {"@alice"}, e \in Emails}

UpdateCalls ==
    {[op |-> "update_lead", args |-> [lead_id |-> 1, updates |-> u]] :
        u \in {("details" :> "x"),
               ("website" :> "https://x.example") @@ ("contact_info" :> "x@example.com")}}
    \cup {[op |-> "update_solution_status", args |-> [solution_id |-> 1, status |-> "approved"]],
          [op |-> "update_outreach_response",
           args |-> [outreach_id |-> 1, response |-> Some("Interested in learning more")]]}

InsertCalls ==
    {[op |-> "add_lead", args |-> l] : l \in LeadSamples}
    \cup {[op |-> "log_outreach", args |-> [lead_id |-> 1]]}

ReadCalls ==
    {[op |-> "get_campaign_stats", args |-> <<>>],
     [op |-> "export_campaign_data", args |-> <<>>]}

\* what the reading calls have fetched so far
NothingGot ==
    [client_info |-> NULL, industry_data |-> <<>>, leads |-> <<>>, solutions |-> <<>>,
     outreach_history |-> <<>>, total_leads |-> 0, solution_stats |-> <<>>]

\* the first statement of a method
first_statement(op) ==
    CASE op = "get_campaign_stats" -> "count_leads"
      [] op = "export_campaign_data" -> "client_info"
      [] OTHER -> "statement"

\* no caller is in the middle of a call
Quiet == \A p \in Callers : callers[p].pc \in {"idle", "returned"}

\* the one statement of a writing method, with its commit
run_statement(db, op, a, now) ==
    CASE op = "create_client" ->
            create_client(db, a.telegram_handle, a.email, a.industry, a.location,
                          a.campaign_parameters, now)
      [] op = "update_lead" -> update_lead(db, a.lead_id, a.updates)
      [] op = "update_solution_status" -> update_solution_status(db, a.solution_id, a.status)
      [] op = "update_outreach_response" ->
            update_outreach_response(db, a.outreach_id, a.response, now)
      [] op = "add_lead" ->
            add_lead(db, a.company_name, a.website, a.contact_info, a.details, now)
      [] op = "log_outreach" -> log_outreach(db, a.lead_id, "Initial contact message", now)

\* the table of an inserting method has room within the bounds of the model
HasRoom(db, op) ==
    /\ op = "create_client" => Len(db.clients) < MaxClients
    /\ op = "add_lead" => Len(db.lead_bucket) < MaxLeads
    /\ op = "log_outreach" => Len(db.outreach_log) < MaxOutreach

\* caller p calls a method of the manager of client id c
Invoke(c, p, Calls) ==
    /\ Opened(c)
    /\ callers[p].pc = "idle"
    /\ \E call \in Calls :
          callers' = [callers EXCEPT ![p] =
                         [pc |-> first_statement(call.op), op |-> call.op, args |-> call.args,
                          got |-> NothingGot, during |-> {Db(c)}, ret |-> <<>>]]
    /\ UNCHANGED <<files, clock, last, crawl, added, chat>>

\* the statement of a writing method runs and commits; the calls of the other
\* callers that are running have now lived through one more state
Write(c, p) ==
    /\ callers[p].pc = "statement"
    /\ HasRoom(Db(c), callers[p].op)
    /\ LET r == run_statement(Db(c), callers[p].op, callers[p].args, clock)
       IN /\ files' = [files EXCEPT ![_get_db_path(c)] = r.db]
          /\ callers' = [q \in Callers |->
                            IF q = p
                            THEN [callers[p] EXCEPT !.pc = "returned", !.ret = r.ret,
                                                    !.during = @ \cup {r.db}]
                            ELSE IF callers[q].pc \in {"idle", "returned"} THEN callers[q]
                            ELSE [callers[q] EXCEPT !.during = @ \cup {r.db}]]
          /\ last' = Call(callers[p].op, c, callers[p].args, r.ret)
    /\ UNCHANGED <<clock, crawl, added, chat>>

\* get_campaign_stats: SELECT COUNT(*) as total FROM lead_bucket
CountLeads(c, p) ==
    /\ callers[p].pc = "count_leads"
    /\ callers' = [callers EXCEPT ![p].pc = "count_solutions",
                                  ![p].got.total_leads = get_campaign_stats(Db(c)).total_leads]
    /\ UNCHANGED <<files, clock, last, crawl, added, chat>>

\* get_campaign_stats: SELECT status, COUNT(*) ... GROUP BY status
CountSolutions(c, p) ==
    /\ callers[p].pc = "count_solutions"
    /\ callers' = [callers EXCEPT ![p].pc = "count_outreach",
                                  ![p].got.solution_stats =
                                      get_campaign_stats(Db(c)).solution_stats]
    /\ UNCHANGED <<files, clock, last, crawl, added, chat>>

\* get_campaign_stats: the SELECT over outreach_log, and the return of the
\* stats, to the caller or into the export
CountOutreach(c, p) ==
    /\ callers[p].pc = "count_outreach"
    /\ LET got == callers[p].got
           stats == [total_leads |-> got.total_leads,
                     solution_stats |-> got.solution_stats,
                     outreach_stats |-> get_campaign_stats(Db(c)).outreach_stats]
           ret == IF callers[p].op = "get_campaign_stats" THEN stats
                  ELSE Returned([client_info |-> Val(got.client_info),
                                 industry_data |-> got.industry_data,
                                 leads |-> got.leads,
                                 solutions |-> got.solutions,
                                 outreach_history |-> got.outreach_history,
                                 campaign_stats |-> stats])
       IN /\ callers' = [callers EXCEPT ![p].pc = "returned", ![p].ret = ret]
          /\ last' = Call(callers[p].op, c, callers[p].args, ret)
    /\ UNCHANGED <<files, clock, crawl, added, chat>>

\* export_campaign_data: the SELECT of the client row, then the four listing
\* methods, each a SELECT on a connection of its own
ExportRead(c, p) ==
    /\ callers[p].pc \in {"client_info", "industry_data", "leads", "solutions",
                          "outreach_history"}
    /\ LET pc == callers[p].pc
           db == Db(c)
       IN \/ /\ pc = "client_info"
             /\ db.clients = <<>>
             /\ callers' = [callers EXCEPT ![p].pc = "returned",
                                           ![p].ret = Raised("TypeError")]
          \/ /\ pc = "client_info"
             /\ \E ci \in Range(db.clients) :
                   callers' = [callers EXCEPT ![p].pc = "industry_data",
                                              ![p].got.client_info = Some(ci)]
          \/ /\ pc = "industry_data"
             /\ \E r \in get_industry_data(db, ExportLimit, NULL) :
                   callers' = [callers EXCEPT ![p].pc = "leads", ![p].got.industry_data = r]
          \/ /\ pc = "leads"
             /\ \E r \in get_leads(db, NULL, ExportLimit) :
                   callers' = [callers EXCEPT ![p].pc = "solutions", ![p].got.leads = r]
          \/ /\ pc = "solutions"
             /\ \E r \in get_solutions(db, NULL, NULL) :
                   callers' = [callers EXCEPT ![p].pc = "outreach_history",
                                              ![p].got.solutions = r]
          \/ /\ pc = "outreach_history"
             /\ \E r \in get_outreach_history(db, NULL, ExportLimit) :
                   callers' = [callers EXCEPT ![p].pc = "count_leads",
                                              ![p].got.outreach_history = r]
    /\ UNCHANGED <<files, clock, last, crawl, added, chat>>

\* the caller has its result and is free to call again
Return(p) ==
    /\ callers[p].pc = "returned"
    /\ callers' = [callers EXCEPT ![p] = IdleCall]
    /\ UNCHANGED <<files, clock, last, crawl, added, chat>>

TheClient == "alice"

NextClient ==
    \/ Open(TheClient)
    \/ Tick
    \/ CreateClient(TheClient, Handles, Emails, CampaignParams)
    \/ GetClient(TheClient)

SpecClient == Init /\ [][NextClient]_vars

NextIndustry ==
    \/ Open(TheClient)
    \/ Tick
    \/ AddIndustryData(TheClient, Samples)
    \/ GetIndustryData(TheClient)
    \/ SearchIndustryData(TheClient)

SpecIndustry == Init /\ [][NextIndustry]_vars

NextLead ==
    \/ Open(TheClient)
    \/ Tick
    \/ AddLead(TheClient)
    \/ UpdateLead(TheClient, LeadUpdates)

SpecLead == Init /\ [][NextLead]_vars

NextSolution ==
    \/ Open(TheClient)
    \/ AddSolution(TheClient, {1})
    \/ UpdateSolutionStatus(TheClient, StatusArgs)

SpecSolution == Init /\ [][NextSolution]_vars

NextOutreach ==
    \/ Open(TheClient)
    \/ AddLead(TheClient)
    \/ LogOutreach(TheClient, 1..MaxLeads)
    \/ UpdateOutreachResponse(TheClient, Responses)
    \/ GetPendingResponses(TheClient)

SpecOutreach == Init /\ [][NextOutreach]_vars

NextStats ==
    \/ Open(TheClient)
    \/ AddLead(TheClient)
    \/ AddSolution(TheClient, {1})
    \/ UpdateSolutionStatus(TheClient, valid_statuses)
    \/ LogOutreach(TheClient, {1})
    \/ UpdateOutreachResponse(TheClient, {Some("Interested in learning more")})
    \/ GetCampaignStats(TheClient)

SpecStats == Init /\ [][NextStats]_vars

\* two tenants, every writing method; TotalRows keeps each store small
TotalRows(db) ==
    Len(db.clients) + Len(db.industry_data) + Len(db.lead_bucket)
        + Len(db.tailored_solutions) + Len(db.outreach_log)

Room(c) == Opened(c) /\ TotalRows(Db(c)) < MaxIsoRows

NextTenants ==
    \E c \in ClientIds :
        \/ Open(c)
        \/ Room(c) /\ CreateClient(c, {"@alice"}, {"a@example.com"}, {OneParams})
        \/ Room(c) /\ AddIndustryData(c, {OneSample})
        \/ Room(c) /\ AddLead(c)
        \/ Room(c) /\ AddSolution(c, {1})
        \/ Room(c) /\ LogOutreach(c, {1})
        \/ UpdateLead(c, {("details" :> "x")})
        \/ UpdateSolutionStatus(c, {"sent"})
        \/ UpdateOutreachResponse(c, {Some("Interested in learning more")})

SpecTenants == Init /\ [][NextTenants]_vars

\* one tenant, entries added directly between the batches of its crawler
NextCrawl ==
    \/ Open(TheClient)
    \/ crawl.pc \in {"idle", "done"} /\ AddIndustryData(TheClient, {OneSample})
    \/ CrawlStart(TheClient)
    \/ CrawlFetch
    \/ CrawlNormalize
    \/ CrawlPersist
    \/ CrawlReturn

SpecCrawl == Init /\ [][NextCrawl]_vars

\* one tenant and the batches of its crawler
NextBatch ==
    \/ Open(TheClient)
    \/ CrawlStart(TheClient)
    \/ CrawlFetch
    \/ CrawlNormalize
    \/ CrawlPersist
    \/ CrawlReturn

\* the batch is a coroutine the event loop resumes whenever the call it
\* awaits has returned: a step of the batch that can be taken is taken
CrawlProgress ==
    /\ WF_vars(CrawlFetch)
    /\ WF_vars(CrawlNormalize)
    /\ WF_vars(CrawlPersist)
    /\ WF_vars(CrawlReturn)

SpecCrawlLive == Init /\ [][NextBatch]_vars /\ CrawlProgress

\* the rows of the tables other than industry_data
OtherRows(db) ==
    Len(db.clients) + Len(db.lead_bucket) + Len(db.tailored_solutions) + Len(db.outreach_log)

OtherRoom(c) == Opened(c) /\ OtherRows(Db(c)) < MaxIsoRows

\* one tenant: entries added directly and by one-URL batches of its crawler,
\* between writes to the other tables
NextCorpus ==
    \/ Open(TheClient)
    \/ crawl.pc \in {"idle", "done"} /\ AddIndustryData(TheClient, {OneSample})
    \/ /\ Opened(TheClient)
       /\ Len(Db(TheClient).industry_data) < MaxEntries
       /\ CrawlStart(TheClient)
       /\ Len(crawl'.urls) = 1
    \/ CrawlFetch /\ crawl'.env \in {<<"ok">>, <<"storage_error">>}
    \/ CrawlNormalize
    \/ CrawlPersist
    \/ CrawlReturn
    \/ OtherRoom(TheClient)
          /\ CreateClient(TheClient, {"@alice"}, {"a@example.com"}, {OneParams})
    \/ OtherRoom(TheClient) /\ AddLead(TheClient)
    \/ OtherRoom(TheClient) /\ AddSolution(TheClient, {1})
    \/ OtherRoom(TheClient) /\ LogOutreach(TheClient, {1})
    \/ UpdateLead(TheClient, {("details" :> "x")}) /\ last'.args.lead_id = 1
    \/ UpdateSolutionStatus(TheClient, {"sent"}) /\ last'.args.solution_id = 1
    \/ UpdateOutreachResponse(TheClient, {Some("Interested in learning more")})
          /\ last'.args.outreach_id = 1

SpecCorpus == Init /\ [][NextCorpus]_vars

\* one tenant whose database is unavailable to some of the calls and to some
\* of the inserts of its crawler's batches
NextStorage ==
    \/ Open(TheClient)
    \/ AddLead(TheClient)
    \/ UpdateLead(TheClient, {("details" :> "x")})
    \/ StorageFails(TheClient)
    \/ /\ Opened(TheClient)
       /\ Len(Db(TheClient).industry_data) < MaxEntries
       /\ CrawlStart(TheClient)
    \/ CrawlFetch /\ crawl'.env[Len(crawl'.env)] \in {"ok", "storage_error"}
    \/ CrawlNormalize
    \/ CrawlPersist
    \/ CrawlReturn

SpecStorage == Init /\ [][NextStorage]_vars

\* one tenant: rows of every table, the profile read back and the export
NextExport ==
    \/ Open(TheClient)
    \/ CreateClient(TheClient, Handles, {"a@example.com"}, CampaignParams)
    \/ GetClient(TheClient)
    \/ AddIndustryData(TheClient, {OneSample})
    \/ AddLead(TheClient)
    \/ AddSolution(TheClient, {1})
    \/ LogOutreach(TheClient, {1})
    \/ ExportCampaignData(TheClient)

SpecExport == Init /\ [][NextExport]_vars

\* one tenant: leads, solutions of the first lead and of a missing lead in
\* several statuses, and the lead listing
NextLeadList ==
    \/ Open(TheClient)
    \/ AddLead(TheClient)
    \/ AddSolution(TheClient, {1, MaxLeads + 1})
    \/ UpdateSolutionStatus(TheClient, {"approved"})
    \/ GetLeads(TheClient)

SpecLeadList == Init /\ [][NextLeadList]_vars

\* one tenant: the three update methods, called with ids of rows that exist
\* and of rows that do not
NextMissingId ==
    \/ Open(TheClient)
    \/ AddLead(TheClient)
    \/ AddSolution(TheClient, {1})
    \/ LogOutreach(TheClient, {1})
    \/ UpdateLead(TheClient, {("details" :> "x"), ("bogus" :> "1")})
    \/ UpdateSolutionStatus(TheClient, {"approved", "archived"})
    \/ UpdateOutreachResponse(TheClient, {Some("Interested in learning more")})

SpecMissingId == Init /\ [][NextMissingId]_vars

\* one tenant whose industry_data also holds rows written by another program
NextRawTags ==
    \/ Open(TheClient)
    \/ ForeignInsert(TheClient)
    \/ AddIndustryData(TheClient, {OneSample})
    \/ GetIndustryData(TheClient)

SpecRawTags == Init /\ [][NextRawTags]_vars

\* the users of the bot and their dialogues
NextBot ==
    \/ \E u \in UserIds : BotStart(u)
    \/ \E u \in UserIds : BotText(u)
    \/ \E u \in UserIds : BotCancel(u)

SpecBot == Init /\ [][NextBot]_vars

\* the users of the bot, and the export of their stores at any time
NextOnboardExport ==
    \/ \E u \in UserIds : BotStart(u)
    \/ \E u \in UserIds : BotText(u)
    \/ \E u \in UserIds : BotCancel(u)
    \/ \E c \in ClientIds : ExportCampaignData(c)

SpecOnboardExport == Init /\ [][NextOnboardExport]_vars

\* two callers of one tenant that each call create_client once
NextRace ==
    \/ Open(TheClient)
    \/ Tick
    \/ \E p \in Callers : Invoke(TheClient, p, CreateCalls)
    \/ \E p \in Callers : Write(TheClient, p)

SpecRace == Init /\ [][NextRace]_vars

\* two callers of one tenant that each call an update method once, on rows
\* that are added while no call is running
NextUpdates ==
    \/ Open(TheClient)
    \/ Quiet /\ AddLead(TheClient)
    \/ Quiet /\ AddSolution(TheClient, {1})
    \/ Quiet /\ LogOutreach(TheClient, {1})
    \/ \E p \in Callers : Invoke(TheClient, p, UpdateCalls)
    \/ \E p \in Callers : Write(TheClient, p)

SpecUpdates == Init /\ [][NextUpdates]_vars

\* one tenant with a profile: the first caller reads the stats and the export
\* while the second adds leads and logs outreach
NextSnapshot ==
    \/ Open(TheClient)
    \/ Quiet /\ CreateClient(TheClient, {"@alice"}, {"a@example.com"}, {OneParams})
    \/ Invoke(TheClient, 1, ReadCalls)
    \/ Invoke(TheClient, 2, InsertCalls)
    \/ Write(TheClient, 2)
    \/ CountLeads(TheClient, 1)
    \/ CountSolutions(TheClient, 1)
    \/ CountOutreach(TheClient, 1)
    \/ ExportRead(TheClient, 1)
    \/ \E p \in Callers : Return(p)

SpecSnapshot == Init /\ [][NextSnapshot]_vars

\* one tenant: solutions and outreach records logged for leads that exist
\* and for lead ids that match no lead
NextRefs ==
    \/ Open(TheClient)
    \/ AddLead(TheClient)
    \/ AddSolution(TheClient, 1..MaxLeads)
    \/ LogOutreach(TheClient, 1..MaxLeads)

SpecRefs == Init /\ [][NextRefs]_vars

(***************************************************************************)
(* Properties.                                                             *)
(***************************************************************************)
Path(c) == _get_db_path(c)

WriteOps ==
    {"create_client", "add_industry_data", "add_lead", "add_solution", "log_outreach",
     "update_lead", "update_solution_status", "update_outreach_response"}

\* everything a manager constructed for the client id reads: the tables of
\* its file and the results of the reading methods
Reads(c) ==
    LET db == _init_database(files, c)[_get_db_path(c)]
    IN [tables |-> db,
        clients |-> [h \in Handles |-> get_client(db, h)],
        industry |-> get_industry_data(db, MaxEntries, NULL),
        search |-> search_industry_data(db, <<"b">>, NULL),
        pending |-> get_pending_responses(db),
        stats |-> get_campaign_stats(db)]

\* C1: a write made through the manager of one client id changes no read made
\* through the manager of another client id.
C1_TenantIsolation ==
    [][\A a \in ClientIds :
          (last'.op \in WriteOps /\ last'.client_id = a) =>
             \A b \in ClientIds \ {a} : Reads(b)' = Reads(b)]_vars

\* one tenant's lead was updated while the other tenant holds a lead too,
\* which still reads as it was added
C1_Witness ==
    /\ last.op = "update_lead"
    /\ last.ret = TRUE
    /\ \E a \in ClientIds :
          /\ last.client_id = a
          /\ Len(Db(a).lead_bucket) = 1
          /\ Db(a).lead_bucket[1].details = "x"
          /\ \E b \in ClientIds \ {a} :
                /\ Opened(b)
                /\ Len(Db(b).lead_bucket) = 1
                /\ Db(b).lead_bucket[1].details = "Growing tech company"

\* the row create_client is asked to store
RequestedClient(args, now) ==
    [telegram_handle |-> args.telegram_handle, email |-> args.email,
     industry |-> args.industry, location |-> args.location,
     campaign_parameters |-> json_dumps_dict(args.campaign_parameters),
     created_at |-> now]

\* C2: create_client is exactly-once per key. A call for a key with no row
\* returns true and stores the row; a call for a key that has a row returns
\* false; and no step of any kind changes a stored client row.
C2_CreateClientExactlyOnce ==
    [][\A c \in ClientIds : Opened(c) =>
          /\ \A h \in Handles :
                HasClient(Db(c), h) => select_client(Db(c)', h) = select_client(Db(c), h)
          /\ (last'.op = "create_client" /\ last'.client_id = c) =>
                IF HasClient(Db(c), last'.args.telegram_handle)
                THEN last'.ret = FALSE
                ELSE /\ last'.ret = TRUE
                     /\ select_client(Db(c)', last'.args.telegram_handle)
                          = Some(RequestedClient(last'.args, clock))]_vars

\* a later create_client with the same key and another profile was refused
C2_Witness ==
    /\ last.op = "create_client"
    /\ last.ret = FALSE
    /\ clock > 0
    /\ LET row == select_client(Db(last.client_id), last.args.telegram_handle)
       IN /\ ~IsNull(row)
          /\ Val(row).email # last.args.email
          /\ Val(row).campaign_parameters # json_dumps_dict(last.args.campaign_parameters)
          /\ Val(row).created_at < clock

\* the tags an entry was added with, as a set
AddedTags(c, id) ==
    LET t == added[Path(c)][id] IN IF IsNull(t) THEN {} ELSE Range(Val(t))

RequestedTags(args) == IF IsNull(args.tags) THEN {} ELSE Range(Val(args.tags))

\* the entry shares a tag with the requested set, or no tag is requested
TagMatch(c, id, T) == T = {} \/ AddedTags(c, id) \cap T # {}

RetIds == {last.ret[i].id : i \in 1..Len(last.ret)}

\* C3: with a limit that covers the table, get_industry_data returns an entry
\* exactly when it shares a tag with the requested tags, and every entry when
\* no tag is requested; no entry is returned twice.
C3_TagFilter ==
    \A c \in ClientIds :
        (/\ last.op = "get_industry_data"
         /\ last.client_id = c
         /\ last.args.limit >= Len(Db(c).industry_data)) =>
            /\ Cardinality(RetIds) = Len(last.ret)
            /\ \A id \in 1..Len(Db(c).industry_data) :
                  id \in RetIds <=> TagMatch(c, id, RequestedTags(last.args))

\* a filtered query kept the entry that shares one tag with the request and
\* left out the entry without tags
C3_Witness ==
    /\ last.op = "get_industry_data"
    /\ last.args.limit >= Len(Db(last.client_id).industry_data)
    /\ RequestedTags(last.args) = {"sales_statistics"}
    /\ Len(last.ret) = 1
    /\ AddedTags(last.client_id, last.ret[1].id) = {"sales_trends", "sales_statistics"}
    /\ \E i \in 1..Len(Db(last.client_id).industry_data) :
          AddedTags(last.client_id, i) = {}

\* a filtered query left out an entry whose tags are not among the requested
C3_WitnessDisjoint ==
    /\ last.op = "get_industry_data"
    /\ last.args.limit >= Len(Db(last.client_id).industry_data)
    /\ RequestedTags(last.args) = {"sales_statistics"}
    /\ Len(last.ret) = 1
    /\ \E i \in 1..Len(Db(last.client_id).industry_data) :
          AddedTags(last.client_id, i) = {"sales_trends"}

\* an unfiltered query returned an untagged entry
C3_WitnessNoFilter ==
    /\ last.op = "get_industry_data"
    /\ RequestedTags(last.args) = {}
    /\ \E i \in RetIds : AddedTags(last.client_id, i) = {}

\* C4: get_industry_data(limit) returns the newest matching entries, newest
\* first: at most limit of them, in descending order of addition, and never an
\* older entry while a newer matching one is left out.
C4_NewestFirst ==
    \A c \in ClientIds :
        (last.op = "get_industry_data" /\ last.client_id = c) =>
            LET M == {id \in 1..Len(Db(c).industry_data) :
                        TagMatch(c, id, RequestedTags(last.args))}
            IN /\ Len(last.ret) <= last.args.limit
               /\ \A i, j \in 1..Len(last.ret) : i < j => last.ret[i].id > last.ret[j].id
               /\ \A a, b \in M : (a > b /\ b \in RetIds) => a \in RetIds

\* the keyword occurs in the text, letter case ignored
Occurs(keyword, text) ==
    \E i \in 0..(Len(text) - Len(keyword)) :
        \A j \in 1..Len(keyword) : Lower(text[i + j]) = Lower(keyword[j])

\* C10: search_industry_data returns, newest first, exactly the entries whose
\* title or content contains the keyword and that pass the tag filter.
C10_SearchExact ==
    \A c \in ClientIds :
        (last.op = "search_industry_data" /\ last.client_id = c) =>
            /\ \A i, j \in 1..Len(last.ret) : i < j => last.ret[i].id > last.ret[j].id
            /\ \A id \in 1..Len(Db(c).industry_data) :
                  LET e == Db(c).industry_data[id]
                  IN id \in RetIds <=>
                        /\ \/ Occurs(last.args.keyword, e.content)
                           \/ (~IsNull(e.title) /\ Occurs(last.args.keyword, Val(e.title)))
                        /\ TagMatch(c, id, RequestedTags(last.args))

AllowList == {"company_name", "website", "contact_info", "details"}

\* the lead with this id exists
LeadExists(db, id) == \E i \in 1..Len(db.lead_bucket) : db.lead_bucket[i].id = id

\* C5: update_lead with no allow-listed field name returns false and changes
\* nothing; update_lead(id, {details: x}) on an existing lead returns true and
\* changes the details of that lead and nothing else in the store.
C5_UpdateLead ==
    [][\A c \in ClientIds :
          (last'.op = "update_lead" /\ last'.client_id = c) =>
             LET u == last'.args.updates
                 id == last'.args.lead_id
             IN /\ (DOMAIN u) \cap AllowList = {} =>
                      (last'.ret = FALSE /\ files' = files)
                /\ ((DOMAIN u) = {"details"} /\ LeadExists(Db(c), id)) =>
                      /\ last'.ret = TRUE
                      /\ files' = [files EXCEPT ![Path(c)].lead_bucket =
                                     [i \in 1..Len(@) |->
                                         IF @[i].id = id
                                         THEN [@[i] EXCEPT !.details = u["details"]]
                                         ELSE @[i]]]]_vars

\* update_lead(1, {details: x}) has changed the first of two leads, added in
\* different seconds, and only its details
C5_Witness ==
    /\ last.op = "update_lead"
    /\ last.ret = TRUE
    /\ DOMAIN last.args.updates = {"details"}
    /\ last.args.lead_id = 1
    /\ LET L == Db(last.client_id).lead_bucket
       IN /\ Len(L) = 2
          /\ L[1].details = "x"
          /\ L[2].details = "Growing tech company"
          /\ L[1].website = "https://techcorp.com"
          /\ L[1].created_at < L[2].created_at

\* update_lead(id, {bogus: 1}) was refused
C5_WitnessBogus ==
    /\ last.op = "update_lead"
    /\ last.ret = FALSE
    /\ DOMAIN last.args.updates = {"bogus"}
    /\ LeadExists(Db(last.client_id), last.args.lead_id)

FiveStatuses == {"pending", "sent", "reviewed", "approved", "rejected"}

SolutionExists(db, id) ==
    \E i \in 1..Len(db.tailored_solutions) : db.tailored_solutions[i].id = id

\* C6: update_solution_status with a status outside the five returns false and
\* changes nothing; with one of the five, on an existing solution, it returns
\* true and sets that solution's status to it, whatever the status was, and
\* changes nothing else.
C6_UpdateSolutionStatus ==
    [][\A c \in ClientIds :
          (last'.op = "update_solution_status" /\ last'.client_id = c) =>
             LET st == last'.args.status
                 id == last'.args.solution_id
             IN /\ st \notin FiveStatuses => (last'.ret = FALSE /\ files' = files)
                /\ (st \in FiveStatuses /\ SolutionExists(Db(c), id)) =>
                      /\ last'.ret = TRUE
                      /\ files' = [files EXCEPT ![Path(c)].tailored_solutions =
                                     [i \in 1..Len(@) |->
                                         IF @[i].id = id
                                         THEN [@[i] EXCEPT !.status = st]
                                         ELSE @[i]]]]_vars

\* the second solution was approved while the first one stays rejected
C6_Witness ==
    /\ last.op = "update_solution_status"
    /\ last.ret = TRUE
    /\ last.args.status = "approved"
    /\ LET S == Db(last.client_id).tailored_solutions
       IN /\ Len(S) = 2
          /\ last.args.solution_id = 2
          /\ S[2].status = "approved"
          /\ S[1].status = "rejected"

\* an unknown status was refused for an existing solution that is not pending
C6_WitnessInvalid ==
    /\ last.op = "update_solution_status"
    /\ last.ret = FALSE
    /\ last.args.status = "archived"
    /\ SolutionExists(Db(last.client_id), last.args.solution_id)
    /\ Db(last.client_id).tailored_solutions[last.args.solution_id].status = "sent"

\* C7: an outreach record has response and updated_at both null, and is
\* listed by get_pending_responses, until update_outreach_response is called
\* on it; once the call with a text has returned true both are set and the
\* record is no longer listed; the two fields are never set one without the
\* other by such a call.
C7_OutreachResponse ==
    \A c \in ClientIds :
        /\ (last.op = "get_pending_responses" /\ last.client_id = c) =>
              \A i \in 1..Len(Db(c).outreach_log) :
                  LET r == Db(c).outreach_log[i]
                  IN /\ (IsNull(r.response) /\ IsNull(r.updated_at)) => r.id \in RetIds
                     /\ ~IsNull(r.response) => (~IsNull(r.updated_at) /\ r.id \notin RetIds)
        /\ (/\ last.op = "update_outreach_response"
            /\ last.client_id = c
            /\ ~IsNull(last.args.response)
            /\ last.ret = TRUE) =>
              \A i \in 1..Len(Db(c).outreach_log) :
                  LET r == Db(c).outreach_log[i]
                  IN r.id = last.args.outreach_id =>
                        (r.response = last.args.response /\ ~IsNull(r.updated_at))

\* C9: get_campaign_stats returns the number of leads, the number of solutions
\* in each status that has one, the number of outreach records and the number
\* of outreach records with a response, 0 when there are none.
C9_CampaignStats ==
    \A c \in ClientIds :
        (last.op = "get_campaign_stats" /\ last.client_id = c) =>
            LET S == Db(c).tailored_solutions
                O == Db(c).outreach_log
                used == {st \in FiveStatuses : \E i \in 1..Len(S) : S[i].status = st}
            IN /\ last.ret.total_leads = Len(Db(c).lead_bucket)
               /\ DOMAIN last.ret.solution_stats = used
               /\ \A st \in used :
                     last.ret.solution_stats[st]
                        = Cardinality({i \in 1..Len(S) : S[i].status = st})
               /\ last.ret.outreach_stats.total_outreach = Len(O)
               /\ last.ret.outreach_stats.responses
                     = Some(Cardinality({i \in 1..Len(O) : ~IsNull(O[i].response)}))

\* the positions of the batch the world lets through
Succeeds(i) == i <= Len(crawl.env) /\ crawl.env[i] = "ok"

RECURSIVE SucceededUrls(_)
SucceededUrls(i) ==
    IF i > Len(crawl.urls) THEN <<>>
    ELSE IF Succeeds(i) THEN <<crawl.urls[i]>> \o SucceededUrls(i + 1)
    ELSE SucceededUrls(i + 1)

\* C8: a batch returns one outcome per URL that was fetched, normalised and
\* stored, none for a URL that failed, in the order of the input list; the
\* store then holds one new entry per outcome, with the outcome's id and URL
\* as source, and no new entry for a URL that only failed.
C8_BatchOutcomes ==
    last.op = "crawl_industry_data" =>
        LET c == last.client_id
            E == Db(c).industry_data
            R == last.ret
        IN /\ Len(crawl.env) = Len(crawl.urls)
           /\ [k \in 1..Len(R) |-> R[k].source] = SucceededUrls(1)
           /\ Len(E) = crawl.base + Len(R)
           /\ \A k \in 1..Len(R) :
                 /\ R[k].id = E[crawl.base + k].id
                 /\ R[k].source = E[crawl.base + k].source
                 /\ R[k].id > crawl.base
           /\ \A k \in (crawl.base + 1)..Len(E) :
                 \E i \in 1..Len(crawl.urls) : Succeeds(i) /\ crawl.urls[i] = E[k].source

\* a batch of three URLs has returned after the world failed the fetch of
\* the second: two outcomes, for the first and the third URL
C8_Witness ==
    /\ last.op = "crawl_industry_data"
    /\ Len(crawl.urls) = 3
    /\ crawl.env = <<"ok", "fetch_error", "ok">>
    /\ crawl.urls[1] # crawl.urls[3]
    /\ Len(last.ret) = 2
    /\ last.ret[2].source = crawl.urls[3]

\* a batch of two URLs whose insert failed for the first has returned the
\* outcome of the second, on a store that already held an entry
C8_WitnessStorage ==
    /\ last.op = "crawl_industry_data"
    /\ crawl.base = 1
    /\ Len(crawl.urls) = 2
    /\ crawl.env = <<"storage_error", "ok">>
    /\ Len(last.ret) = 1
    /\ last.ret[1].id = 2

\* C11: the industry data is append-only. No step of the store or of the
\* crawler changes or removes a stored entry, and an entry a step adds, by
\* add_industry_data directly or by the persist step of a batch, has an id
\* greater than every id given before; add_industry_data returns that id.
C11_AppendOnly ==
    [][\A c \in ClientIds : Opened(c) =>
          LET old == Range(Db(c).industry_data)
              new == Range(Db(c)'.industry_data)
          IN /\ old \subseteq new
             /\ \A r \in new \ old : \A o \in old : r.id > o.id
             /\ Cardinality({r.id : r \in new}) = Len(Db(c)'.industry_data)
             /\ (last'.op = "add_industry_data" /\ last'.client_id = c) =>
                   /\ \E r \in new \ old : r.id = last'.ret
                   /\ \A o \in old : last'.ret > o.id]_vars

\* a batch stored an entry of a source the store already held an entry of,
\* with other tags, and the earlier entry is still there
C11_Witness ==
    /\ last.op = "crawl_industry_data:persist"
    /\ LET D == Db(last.client_id).industry_data
       IN /\ Len(D) >= 2
          /\ \E i, j \in 1..Len(D) :
                /\ i < j
                /\ j = Len(D)
                /\ D[i].source = D[j].source
                /\ D[i].tags # D[j].tags
                /\ D[i].id < D[j].id

\* C12: every stored solution has one of the five statuses, and the solution
\* add_solution has just created has status pending.
C12_SolutionStatusValid ==
    \A c \in ClientIds : Opened(c) =>
        LET S == Db(c).tailored_solutions
        IN /\ \A i \in 1..Len(S) : S[i].status \in FiveStatuses
           /\ (last.op = "add_solution" /\ last.client_id = c) =>
                 \E i \in 1..Len(S) : S[i].id = last.ret /\ S[i].status = "pending"

\* a solution was created next to one that has been approved
C12_Witness ==
    /\ last.op = "add_solution"
    /\ LET S == Db(last.client_id).tailored_solutions
       IN /\ Len(S) = 2
          /\ S[1].status = "approved"
          /\ S[2].id = last.ret
          /\ S[2].status = "pending"

\* C13: the response of an outreach record is set at most once. Once it is
\* not null, no step changes the record's response or its updated_at.
C13_ResponseSetOnce ==
    [][\A c \in ClientIds : Opened(c) =>
          \A i \in 1..Len(Db(c).outreach_log) :
              LET r == Db(c).outreach_log[i]
              IN ~IsNull(r.response) =>
                    \E j \in 1..Len(Db(c)'.outreach_log) :
                        LET q == Db(c)'.outreach_log[j]
                        IN /\ q.id = r.id
                           /\ q.response = r.response
                           /\ q.updated_at = r.updated_at]_vars

\* C14: for every outreach record, updated_at is not null exactly when
\* response is not null.
C14_UpdatedIffResponse ==
    \A c \in ClientIds : Opened(c) =>
        \A i \in 1..Len(Db(c).outreach_log) :
            LET r == Db(c).outreach_log[i]
            IN IsNull(r.updated_at) <=> IsNull(r.response)

\* C15: a call of a writing method that finds the database unavailable ends
\* with the error raised to its caller, and a batch whose insert found the
\* database unavailable does not return normally with that URL left out.
C15_StorageErrorSurfaces ==
    /\ (last.op \in WriteOps /\ "storage" \in DOMAIN last.args) =>
          last.ret.raised = "OperationalError"
    /\ last.op = "crawl_industry_data" =>
          \A i \in 1..Len(crawl.env) : crawl.env[i] # "storage_error"

\* C16: an export that returns holds a client row of the store, the campaign
\* stats of the store, and no more rows of any of the four collections than
\* the limit of the export.
C16_ExportCaps ==
    \A c \in ClientIds :
        (last.op = "export_campaign_data" /\ last.client_id = c /\ last.ret.raised = "") =>
            LET x == Val(last.ret.ret)
            IN /\ x.client_info \in Range(Db(c).clients)
               /\ x.campaign_stats = get_campaign_stats(Db(c))
               /\ Len(x.industry_data) <= ExportLimit
               /\ Len(x.leads) <= ExportLimit
               /\ Len(x.solutions) <= ExportLimit
               /\ Len(x.outreach_history) <= ExportLimit

\* the campaign_parameters object the client row of this handle was created
\* with is P
CreatedWith(db, handle, P) ==
    /\ ~IsNull(select_client(db, handle))
    /\ Val(select_client(db, handle)).campaign_parameters = json_dumps_dict(P)

\* C17: campaign_parameters round-trips. The profile get_client returns, and
\* the profile inside an export, carry the campaign_parameters object the
\* client was created with.
C17_ParamsRoundTrip ==
    \A c \in ClientIds :
        /\ (last.op = "get_client" /\ last.client_id = c /\ ~IsNull(last.ret)) =>
              \E P \in CampaignParams :
                  /\ CreatedWith(Db(c), last.args.telegram_handle, P)
                  /\ Val(last.ret).campaign_parameters = P
        /\ (last.op = "export_campaign_data" /\ last.client_id = c
               /\ last.ret.raised = "") =>
              LET ci == Val(last.ret.ret).client_info
              IN \E P \in CampaignParams :
                    /\ CreatedWith(Db(c), ci.telegram_handle, P)
                    /\ ci.campaign_parameters = P

\* C18: the store of a tenant holds at most one client row.
C18_OneClientRow ==
    \A c \in ClientIds : Opened(c) => Len(Db(c).clients) <= 1

\* the lead after a request: the allow-listed names of the request hold the
\* requested values, every other column is as it was
Requested(row, u) ==
    [id |-> row.id,
     company_name |-> IF "company_name" \in DOMAIN u THEN u["company_name"] ELSE row.company_name,
     website |-> IF "website" \in DOMAIN u THEN u["website"] ELSE row.website,
     contact_info |-> IF "contact_info" \in DOMAIN u THEN u["contact_info"] ELSE row.contact_info,
     details |-> IF "details" \in DOMAIN u THEN u["details"] ELSE row.details,
     created_at |-> row.created_at]

\* C19: update_lead of an existing lead with a request that mixes allow-listed
\* names and other names returns true; in that one step every allow-listed
\* field of the request takes its value, and nothing else changes: not the
\* other columns of the lead, the other leads or the other tables.
C19_UpdateLeadMixed ==
    [][\A c \in ClientIds :
          (last'.op = "update_lead" /\ last'.client_id = c) =>
             LET u == last'.args.updates
                 id == last'.args.lead_id
             IN (/\ (DOMAIN u) \cap AllowList # {}
                 /\ (DOMAIN u) \ AllowList # {}
                 /\ LeadExists(Db(c), id)) =>
                   /\ last'.ret = TRUE
                   /\ files' = [files EXCEPT ![Path(c)].lead_bucket =
                                  [i \in 1..Len(@) |->
                                      IF @[i].id = id THEN Requested(@[i], u)
                                      ELSE @[i]]]]_vars

\* a request naming two allow-listed fields and a foreign one was applied to
\* one of two leads
C19_Witness ==
    /\ last.op = "update_lead"
    /\ last.ret = TRUE
    /\ DOMAIN last.args.updates = {"company_name", "details", "bogus"}
    /\ last.args.lead_id = 2
    /\ LET L == Db(last.client_id).lead_bucket
       IN /\ Len(L) = 2
          /\ L[2].company_name = "X Corp"
          /\ L[2].details = "x"
          /\ L[2].website = "https://techcorp.com"
          /\ L[1].company_name = "Tech Corp"

\* the solutions of the lead, with this status
SolutionsOf(db, lead_id, st) ==
    {i \in 1..Len(db.tailored_solutions) :
        db.tailored_solutions[i].lead_id = lead_id /\ db.tailored_solutions[i].status = st}

\* the returned rows of the lead, with this status column
RowsOf(lead_id, status) ==
    {i \in 1..Len(last.ret) : last.ret[i].id = lead_id /\ last.ret[i].status = status}

\* C20: get_leads returns one row per (lead, solution) pair. With a limit that
\* covers the join and no status filter, a lead appears once per solution it
\* has, with that solution's status, and a lead with no solution once, with a
\* null status; with a status filter the rows are exactly the pairs whose
\* solution has that status, so a lead with no solution is not returned. Every
\* row carries the columns of its lead.
C20_LeadRowsPerPair ==
    \A c \in ClientIds :
        (/\ last.op = "get_leads"
         /\ last.client_id = c
         /\ last.args.limit >= Len(Db(c).lead_bucket) + Len(Db(c).tailored_solutions)) =>
            LET L == Db(c).lead_bucket
                f == last.args.status
            IN /\ \A i \in 1..Len(last.ret) :
                     \E k \in 1..Len(L) :
                         /\ L[k].id = last.ret[i].id
                         /\ LeadRow(L[k], last.ret[i].status) = last.ret[i]
               /\ \A k \in 1..Len(L) :
                     LET none == \A st \in FiveStatuses : SolutionsOf(Db(c), L[k].id, st) = {}
                     IN /\ \A st \in FiveStatuses :
                              Cardinality(RowsOf(L[k].id, Some(st)))
                                 = IF IsNull(f) \/ f = Some(st)
                                   THEN Cardinality(SolutionsOf(Db(c), L[k].id, st))
                                   ELSE 0
                        /\ Cardinality(RowsOf(L[k].id, NULL))
                              = IF IsNull(f) /\ none THEN 1 ELSE 0

\* an unfiltered listing returned the lead that has two solutions twice, once
\* with each status, and the lead that has none once
C20_Witness ==
    /\ last.op = "get_leads"
    /\ IsNull(last.args.status)
    /\ Len(Db(last.client_id).lead_bucket) = 2
    /\ Len(last.ret) = 3
    /\ Cardinality(RowsOf(1, Some("pending"))) = 1
    /\ Cardinality(RowsOf(1, Some("approved"))) = 1
    /\ Cardinality(RowsOf(2, NULL)) = 1

\* a listing filtered by a status returned the one matching pair and left out
\* the lead that has no solution
C20_WitnessFiltered ==
    /\ last.op = "get_leads"
    /\ last.args.status = Some("approved")
    /\ last.args.limit >= 4
    /\ Len(Db(last.client_id).lead_bucket) = 2
    /\ Len(Db(last.client_id).tailored_solutions) = 2
    /\ Len(last.ret) = 1
    /\ last.ret[1].id = 1

\* C21: get_pending_responses returns exactly the outreach records whose
\* response is null, each once, whatever lead id they were logged with, so
\* that the number of records it returns plus the responses count of
\* get_campaign_stats (none counted as 0) is total_outreach.
C21_PendingExact ==
    \A c \in ClientIds :
        (last.op = "get_pending_responses" /\ last.client_id = c) =>
            LET O == Db(c).outreach_log
                stats == get_campaign_stats(Db(c)).outreach_stats
                responded == IF IsNull(stats.responses) THEN 0 ELSE Val(stats.responses)
            IN /\ \A i \in 1..Len(O) : O[i].id \in RetIds <=> IsNull(O[i].response)
               /\ Cardinality(RetIds) = Len(last.ret)
               /\ Len(last.ret) + responded = stats.total_outreach

\* C22: every stored solution and every stored outreach record has the
\* lead_id of an existing lead.
C22_LeadRefsExist ==
    \A c \in ClientIds : Opened(c) =>
        /\ \A i \in 1..Len(Db(c).tailored_solutions) :
              LeadExists(Db(c), Db(c).tailored_solutions[i].lead_id)
        /\ \A i \in 1..Len(Db(c).outreach_log) :
              LeadExists(Db(c), Db(c).outreach_log[i].lead_id)

\* the batch has left its k-th URL behind: on to the next one, or to the return
MovedOn(k) ==
    /\ crawl'.i = k + 1
    /\ crawl'.pc = IF k + 1 > Len(crawl.urls) THEN "return" ELSE "fetch"
    /\ crawl'.urls = crawl.urls

\* the k-th URL ends Failed: nothing stored, no outcome, the batch moves on
UrlFailed(k) ==
    /\ MovedOn(k)
    /\ crawl'.results = crawl.results
    /\ files' = files

\* the k-th URL ends Persisted: one entry of that URL stored, one outcome more
UrlPersisted(k) ==
    /\ MovedOn(k)
    /\ Len(crawl'.results) = Len(crawl.results) + 1
    /\ crawl'.results[Len(crawl'.results)].source = crawl.urls[k]
    /\ LET D == Db(crawl.client_id).industry_data
           E == Db(crawl.client_id)'.industry_data
       IN /\ Len(E) = Len(D) + 1
          /\ SubSeq(E, 1, Len(D)) = D
          /\ E[Len(E)].source = crawl.urls[k]

\* the stages a URL goes through, step by step
UrlStages ==
    [][\/ crawl' = crawl
       \/ /\ crawl.pc \in {"idle", "done"}
          /\ crawl'.i = 1
          /\ crawl'.pc = IF crawl'.urls = <<>> THEN "return" ELSE "fetch"
          /\ files' = files
       \/ /\ crawl.pc = "fetch"
          /\ \/ /\ crawl'.pc = "normalize"
                /\ crawl'.i = crawl.i
                /\ files' = files
             \/ UrlFailed(crawl.i)
       \/ /\ crawl.pc = "normalize"
          /\ \/ /\ crawl'.pc = "persist"
                /\ crawl'.i = crawl.i
                /\ files' = files
             \/ UrlFailed(crawl.i)
       \/ /\ crawl.pc = "persist"
          /\ UrlPersisted(crawl.i) \/ UrlFailed(crawl.i)
       \/ /\ crawl.pc = "return"
          /\ crawl'.pc = "done"
          /\ crawl'.results = crawl.results
          /\ files' = files]_vars

\* a URL whose fetch gave no document is never normalised nor persisted
NoPersistAfterFailedFetch ==
    [](crawl.pc \in {"normalize", "persist"} =>
          crawl.env[crawl.i] \notin {"fetch_error", "empty"})

\* every URL that is fetched is left behind, and a batch that runs returns
BatchTerminates ==
    /\ \A k \in 1..MaxUrls :
          (crawl.pc = "fetch" /\ crawl.i = k) ~> (crawl.i = k + 1)
    /\ (crawl.pc \in {"fetch", "normalize", "persist", "return"}) ~> (crawl.pc = "done")

\* C23: each URL of a batch goes from fetching to normalising to persisted, or
\* to failed from any of the stages; nothing is normalised or persisted for a
\* URL whose fetch failed; after a failure the batch goes on with the next
\* URL; and every URL is eventually persisted or failed and the batch returns.
C23_UrlStateMachine == UrlStages /\ NoPersistAfterFailedFetch /\ BatchTerminates

\* a batch of three URLs has returned with one outcome: the first URL failed
\* at its fetch, the second was persisted, the third failed at its insert
C23_Witness ==
    /\ last.op = "crawl_industry_data"
    /\ crawl.pc = "done"
    /\ crawl.env = <<"fetch_error", "ok", "storage_error">>
    /\ Len(last.ret) = 1
    /\ last.ret[1].source = crawl.urls[2]

\* the distinct elements of a list, in order of first occurrence
RECURSIVE FirstOccurrences(_)
FirstOccurrences(list) ==
    IF list = <<>> THEN <<>>
    ELSE LET rest == FirstOccurrences(SubSeq(list, 1, Len(list) - 1))
         IN IF list[Len(list)] \in Range(rest) THEN rest
            ELSE Append(rest, list[Len(list)])

\* C25: tags are a set with display order. An entry added with a tag list is
\* stored, and returned by get_industry_data and search_industry_data, with
\* each distinct tag once, in order of first occurrence; and two entries with
\* the same set of tags are matched alike by a tag filter.
C25_TagsAsSet ==
    \A c \in ClientIds : Opened(c) =>
        /\ \A id \in 1..Len(Db(c).industry_data) :
              Truthy(added[Path(c)][id]) =>
                 Db(c).industry_data[id].tags
                    = Some(json_dumps(FirstOccurrences(Val(added[Path(c)][id]))))
        /\ (last.op \in {"get_industry_data", "search_industry_data"}
               /\ last.client_id = c) =>
              \A i \in 1..Len(last.ret) :
                  Truthy(added[Path(c)][last.ret[i].id]) =>
                     last.ret[i].tags
                        = Some(FirstOccurrences(Val(added[Path(c)][last.ret[i].id])))
        /\ (/\ last.op = "get_industry_data"
            /\ last.client_id = c
            /\ last.args.limit >= Len(Db(c).industry_data)) =>
              \A a, b \in 1..Len(Db(c).industry_data) :
                  AddedTags(c, a) = AddedTags(c, b) => (a \in RetIds <=> b \in RetIds)

\* C24: the tag predicate answers false, for every candidate tag, on a stored
\* value that is null, empty, unparsable or JSON that is not an array, and on
\* a well-formed array answers true exactly for its elements; a query over a
\* store that holds a row with such a malformed value returns, leaves the row
\* out when tags are requested, and returns it as a row with no tags when
\* none are.
C24_MalformedTags ==
    /\ \A t \in MalformedTags : \A v \in Tags : ~_json_array_contains(t, v)
    /\ \A l \in TagLists : \A v \in Tags :
          _json_array_contains(Some(json_dumps(l)), v) <=> v \in Range(l)
    /\ \A c \in ClientIds :
          (/\ last.op = "get_industry_data"
           /\ last.client_id = c
           /\ last.args.limit >= Len(Db(c).industry_data)) =>
              \A i \in 1..Len(Db(c).industry_data) :
                  LET r == Db(c).industry_data[i]
                  IN r.tags \in MalformedTags =>
                        IF Truthy(last.args.tags)
                        THEN r.id \notin RetIds
                        ELSE \E k \in 1..Len(last.ret) :
                                last.ret[k].id = r.id /\ ~Truthy(last.ret[k].tags)

\* both callers have their results
BothReturned(p, q) == p # q /\ callers[p].pc = "returned" /\ callers[q].pc = "returned"

\* C26: of two concurrent create_client calls with one key, on a store that
\* held no row of that key, exactly one returns true and the other false, and
\* the stored row is the profile of the call that returned true.
C26_OneWinner ==
    \A p, q \in Callers :
        (/\ BothReturned(p, q)
         /\ callers[p].op = "create_client"
         /\ callers[q].op = "create_client"
         /\ callers[p].args.telegram_handle = callers[q].args.telegram_handle) =>
            /\ callers[p].ret # callers[q].ret
            /\ callers[p].ret = TRUE =>
                  LET row == select_client(Db(TheClient), callers[p].args.telegram_handle)
                  IN /\ ~IsNull(row)
                     /\ Val(row) = RequestedClient(callers[p].args, Val(row).created_at)

\* two calls with one key and different profiles have both returned, the
\* second caller's with true, and the row holds the second caller's email
C26_Witness ==
    /\ BothReturned(1, 2)
    /\ callers[1].op = "create_client"
    /\ callers[2].op = "create_client"
    /\ callers[1].args.email # callers[2].args.email
    /\ callers[1].ret = FALSE
    /\ callers[2].ret = TRUE
    /\ Db(TheClient).clients[1].email = callers[2].args.email

\* C27: get_campaign_stats and export_campaign_data are point-in-time reads.
\* What a call returns is what the method returns on one of the states the
\* store was in during the call.
C27_PointInTime ==
    \A p \in Callers :
        callers[p].pc = "returned" =>
            /\ callers[p].op = "get_campaign_stats" =>
                  \E S \in callers[p].during : callers[p].ret = get_campaign_stats(S)
            /\ callers[p].op = "export_campaign_data" =>
                  \E S \in callers[p].during : callers[p].ret \in export_campaign_data(S)

\* the row of a table with this id, in a state of the store
RowOf(rows, id) == CHOOSE r \in Range(rows) : r.id = id

\* the row a call is about existed in every state of the store during the call
ExistedDuring(p, table, id) ==
    \A S \in callers[p].during : \E r \in Range(S[table]) : r.id = id

\* C28: no lost update between concurrent single-row writes. After two
\* update_lead calls on one lead with disjoint allow-listed field sets, the
\* lead has the fields of both; after update_solution_status next to
\* update_outreach_response, the solution has its new status and the outreach
\* record its response.
C28_NoLostUpdate ==
    \A p, q \in Callers :
        BothReturned(p, q) =>
            LET a == callers[p].args
                b == callers[q].args
                db == Db(TheClient)
            IN /\ (/\ callers[p].op = "update_lead"
                   /\ callers[q].op = "update_lead"
                   /\ a.lead_id = b.lead_id
                   /\ DOMAIN a.updates \subseteq AllowList
                   /\ DOMAIN b.updates \subseteq AllowList
                   /\ (DOMAIN a.updates) \cap (DOMAIN b.updates) = {}
                   /\ ExistedDuring(p, "lead_bucket", a.lead_id)
                   /\ ExistedDuring(q, "lead_bucket", b.lead_id)) =>
                      /\ callers[p].ret = TRUE
                      /\ callers[q].ret = TRUE
                      /\ \A k \in DOMAIN a.updates :
                            RowOf(db.lead_bucket, a.lead_id)[k] = a.updates[k]
                      /\ \A k \in DOMAIN b.updates :
                            RowOf(db.lead_bucket, a.lead_id)[k] = b.updates[k]
               /\ (/\ callers[p].op = "update_solution_status"
                   /\ callers[q].op = "update_outreach_response"
                   /\ a.status \in valid_statuses
                   /\ ExistedDuring(p, "tailored_solutions", a.solution_id)
                   /\ ExistedDuring(q, "outreach_log", b.outreach_id)) =>
                      /\ callers[p].ret = TRUE
                      /\ callers[q].ret = TRUE
                      /\ RowOf(db.tailored_solutions, a.solution_id).status = a.status
                      /\ RowOf(db.outreach_log, b.outreach_id).response = b.response

\* two update_lead calls on lead 1 with disjoint field sets have both
\* returned, the one that names details having run first
C28_Witness ==
    /\ BothReturned(1, 2)
    /\ callers[1].op = "update_lead"
    /\ callers[2].op = "update_lead"
    /\ DOMAIN callers[1].args.updates = {"details"}
    /\ DOMAIN callers[2].args.updates = {"website", "contact_info"}
    /\ ExistedDuring(1, "lead_bucket", 1)
    /\ ExistedDuring(2, "lead_bucket", 1)
    /\ Cardinality(callers[2].during) = 3
    /\ Cardinality(callers[1].during) = 2
    /\ Db(TheClient).lead_bucket[1].details = "x"
    /\ Db(TheClient).lead_bucket[1].website = "https://x.example"

\* update_solution_status and update_outreach_response on rows that exist
\* have both returned
C28_WitnessTables ==
    /\ BothReturned(1, 2)
    /\ callers[1].op = "update_solution_status"
    /\ callers[2].op = "update_outreach_response"
    /\ ExistedDuring(1, "tailored_solutions", 1)
    /\ ExistedDuring(2, "outreach_log", 1)
    /\ Db(TheClient).tailored_solutions[1].status = "approved"
    /\ ~IsNull(Db(TheClient).outreach_log[1].response)

\* no step of this kind changes the client rows of any file
ClientRows(fs, p) == IF fs[p].exists THEN fs[p].clients ELSE <<>>

ClientsUnchanged == \A p \in Paths : ClientRows(files', p) = ClientRows(files, p)

\* C29: the onboarding dialogue is a finite-state machine. /start leads to
\* EMAIL, and each text message moves one state on, EMAIL to INDUSTRY to
\* LOCATION to CAMPAIGN_PARAMS to END; create_client is called only in
\* CAMPAIGN_PARAMS on a text that parses as JSON, and at most once per
\* dialogue; a text that is not JSON leaves the dialogue in CAMPAIGN_PARAMS
\* and creates no client row; /cancel ends the dialogue and creates no row.
C29_DialogueFsm ==
    [][\A u \in UserIds :
          chat'[u] # chat[u] =>
             LET s == chat[u].state
                 t == chat'[u].state
                 m == chat'[u].update
                 called == chat'[u].creates > chat[u].creates
                 parses == json_loads(lex(m.text)).ok
             IN /\ m.kind = "/start" => (t = EMAIL /\ ~called /\ ClientsUnchanged)
                /\ m.kind = "text" =>
                      /\ s = EMAIL => t = INDUSTRY
                      /\ s = INDUSTRY => t = LOCATION
                      /\ s = LOCATION => t = CAMPAIGN_PARAMS
                      /\ s = CAMPAIGN_PARAMS => t = (IF parses THEN END ELSE CAMPAIGN_PARAMS)
                      /\ called <=> (s = CAMPAIGN_PARAMS /\ parses)
                      /\ ~called => ClientsUnchanged
                /\ m.kind = "/cancel" => (t = END /\ ~called /\ ClientsUnchanged)
                /\ chat'[u].creates <= 1]_vars

\* a dialogue has ended with the profile created by its one create_client
\* call, after a JSON text was sent as the email
C29_Witness ==
    \E u \in UserIds :
        /\ chat[u].state = END
        /\ chat[u].reply = OnboardingComplete
        /\ chat[u].creates = 1
        /\ chat[u].user_data.email = ValidJson
        /\ HasClient(Db(chat[u].user_data.client_id), chat[u].user_data.display_name)

\* C30: after a dialogue has completed successfully for a user with tenant
\* identifier t, get_client(t) on the store of t returns the client row.
C30_TenantLookup ==
    \A u \in UserIds :
        (chat[u].state = END /\ chat[u].reply = OnboardingComplete) =>
            LET t == chat[u].user_data.client_id
            IN ~IsNull(get_client(Db(t), t))

\* a row of the table has this id
HasRow(rows, id) == \E i \in 1..Len(rows) : rows[i].id = id

\* C31: update_lead, update_solution_status and update_outreach_response
\* return true only if a row with the given id exists. Called with valid
\* arguments and an id that matches no row, each returns false and leaves
\* every row of the store unchanged.
C31_MissingIdRefused ==
    [][\A c \in ClientIds :
          last'.client_id = c =>
             LET a == last'.args
                 db == Db(c)
                 refused == last'.ret = FALSE /\ files' = files
             IN /\ (/\ last'.op = "update_lead"
                    /\ (DOMAIN a.updates) \cap AllowList # {}
                    /\ ~HasRow(db.lead_bucket, a.lead_id)) => refused
                /\ (/\ last'.op = "update_solution_status"
                    /\ a.status \in valid_statuses
                    /\ ~HasRow(db.tailored_solutions, a.solution_id)) => refused
                /\ (/\ last'.op = "update_outreach_response"
                    /\ ~HasRow(db.outreach_log, a.outreach_id)) => refused]_vars

\* C32: export_campaign_data returns a snapshot without raising in every
\* state of an opened store, also of a store that /start has opened and in
\* which no client row has been created yet.
C32_ExportNeverRaises ==
    \A c \in ClientIds :
        (last.op = "export_campaign_data" /\ last.client_id = c) => last.ret.raised = ""

====
